---- MODULE Spec2Model ----
(***************************************************************************)
(* Denon MC2000 controller mapping (Denon-MC2000-scripts.js): the LED      *)
(* manager with its write-deduplication cache, the shift state machine     *)
(* with the shift-capable deck controls, and the jog-wheel interpreter     *)
(* with its idle-release timer.                                            *)
(*                                                                         *)
(* JavaScript values are encoded as follows.  A LED status argument is a   *)
(* token: "n0" "n1" "n2" "n3" are the numbers 0..3, "true" "false" the     *)
(* booleans, "off" "on" "blink" the strings.  A MIDI message               *)
(* midi.sendShortMsg(0xB0 + (deck - 1), statusByte, code) is the triple    *)
(* <<deck, code, statusByte>>.  The cache object is a function on the        *)
(* (deck, code) pairs; 0 stands for a key that was never written           *)
(* (undefined).                                                            *)
(***************************************************************************)
EXTENDS Integers, Sequences, FiniteSets, TLC

----------------------------------------------------------------------------
(* MC2000.LED_STATE and the alternate (PFL) protocol bytes *)
LED_OFF == 75
LED_ON == 74
LED_BLINK == 76
ALT_ON == 80
ALT_OFF == 81

(* MC2000.leds, in insertion order (Object.keys order) *)
LedOrder ==
  << "shiftlock", "vinylmode", "keylock", "sync",
     "cue1", "cue2", "cue3", "cue4",
     "samp1_l", "samp2_l", "samp3_l", "samp4_l",
     "samples_l", "samp1_r", "samp2_r", "samp3_r",
     "samp4_r", "samples_r", "cue", "play",
     "loopin", "loopout", "autoloop",
     "fx1_1", "fx1_2", "fx1_3", "fx2_1", "fx2_2", "fx2_3",
     "monitorcue_l", "monitorcue_r",
     "sampler1", "sampler2", "sampler3", "sampler4",
     "sampler5", "sampler6", "sampler7", "sampler8",
     "samplemode" >>

LedCodes ==
  << 2, 6, 8, 9,
     17, 19, 21, 23,
     25, 27, 29, 32,
     35, 65, 67, 69,
     71, 73, 38, 39,
     36, 64, 43,
     92, 93, 94, 96, 97, 98,
     69, 81,
     25, 27, 29, 32,
     65, 67, 69, 71,
     26 >>

LedNames == {LedOrder[i] : i \in 1..Len(LedOrder)}

IndexOf(name) == CHOOSE i \in 1..Len(LedOrder) : LedOrder[i] = name

(* the regular expressions of the LED_MAP builder, as the sets they match *)
SuffixL == {"samp1_l", "samp2_l", "samp3_l", "samp4_l", "samples_l", "monitorcue_l"}
SuffixR == {"samp1_r", "samp2_r", "samp3_r", "samp4_r", "samples_r", "monitorcue_r"}
SamplerBank1 == {"sampler1", "sampler2", "sampler3", "sampler4"}
SamplerBank2 == {"sampler5", "sampler6", "sampler7", "sampler8"}

(* LED_MAP[name].decks, in forEach order *)
LedDecks(name) ==
  IF name \in SuffixL THEN <<1>>
  ELSE IF name \in SuffixR THEN <<2>>
  ELSE IF name \in SamplerBank1 THEN <<1>>
  ELSE IF name \in SamplerBank2 THEN <<2>>
  ELSE <<1, 2>>

(* LED_MAP[name].code *)
LedCode(name) == LedCodes[IndexOf(name)]

(* LED_MAP is a plain object: besides the LED names it answers to the  *)
(* members it inherits, which are objects without a code and without   *)
(* decks; the code of such a member is undefined, written 0            *)
InheritedNames == {"constructor", "toString"}
UNDEF_CODE == 0

(* LED_MAP[name] is truthy *)
HasDef(name) == name \in LedNames \cup InheritedNames

(* LED_MAP[name].code *)
DefCode(name) == IF name \in LedNames THEN LedCode(name) ELSE UNDEF_CODE

Decks == {1, 2}
Codes == {LedCodes[i] : i \in 1..Len(LedCodes)}
Pairs == Decks \X (Codes \cup {UNDEF_CODE})
Bytes == {LED_OFF, LED_ON, LED_BLINK, ALT_ON, ALT_OFF}

(* a normalize that lights a blinking LED steadily *)
normalizeNoBlink(status) ==
  IF status \in {"n0", "false", "off"} THEN LED_OFF ELSE LED_ON

(* normalize(status) *)
normalize(status) ==
  IF status \in {"n0", "false", "off"} THEN LED_OFF
  ELSE IF status \in {"n2", "blink"} THEN LED_BLINK
  ELSE LED_ON

(* JavaScript truthiness of the tokens used as engine values *)
Truthy(value) == value \notin {"n0", "false"}

----------------------------------------------------------------------------
(* The LED manager works on the triple (cache, device, sent, reqs):        *)
(*   cache  the closure variable `cache`                                   *)
(*   device the last byte the output port received for each pair           *)
(*   sent   the MIDI messages written by the current handler               *)
(*   reqs   the calls of send() made by the current handler                *)

LedState(c, d) == [cache |-> c, device |-> d, sent |-> <<>>, reqs |-> <<>>]

Put(f, k, v) == [f EXCEPT ![k] = v]

(* a send() that forwards every write, the cache never consulted *)
SendNoDedup(st, deck, code, statusByte) ==
  LET k == <<deck, code>> IN
    [cache |-> Put(st.cache, k, statusByte),
     device |-> Put(st.device, k, statusByte),
     sent |-> Append(st.sent, <<deck, code, statusByte>>),
     reqs |-> Append(st.reqs, <<deck, code, statusByte>>)]

(* a send() that forwards the write and forgets to record it in the cache *)
SendNoCacheUpdate(st, deck, code, statusByte) ==
  LET k == <<deck, code>> IN
    IF st.cache[k] = statusByte
    THEN [st EXCEPT !.reqs = Append(@, <<deck, code, statusByte>>)]
    ELSE [cache |-> st.cache,
          device |-> Put(st.device, k, statusByte),
          sent |-> Append(st.sent, <<deck, code, statusByte>>),
          reqs |-> Append(st.reqs, <<deck, code, statusByte>>)]

(* a send() that deletes the cache entry of a LED it turns off *)
SendDropsOff(st, deck, code, statusByte) ==
  LET k == <<deck, code>> IN
    IF st.cache[k] = statusByte
    THEN [st EXCEPT !.reqs = Append(@, <<deck, code, statusByte>>)]
    ELSE [cache |-> Put(st.cache, k, IF statusByte = LED_OFF THEN 0 ELSE statusByte),
          device |-> Put(st.device, k, statusByte),
          sent |-> Append(st.sent, <<deck, code, statusByte>>),
          reqs |-> Append(st.reqs, <<deck, code, statusByte>>)]

(* send(deck, code, statusByte) *)
Send(st, deck, code, statusByte) ==
  LET k == <<deck, code>> IN
    IF st.cache[k] = statusByte
    THEN [st EXCEPT !.reqs = Append(@, <<deck, code, statusByte>>)]
    ELSE [cache |-> Put(st.cache, k, statusByte),
          device |-> Put(st.device, k, statusByte),
          sent |-> Append(st.sent, <<deck, code, statusByte>>),
          reqs |-> Append(st.reqs, <<deck, code, statusByte>>)]

RECURSIVE SendEach(_, _, _, _)
(* decks.forEach(function(d) { send(d, def.code, statusByte); }) *)
SendEach(st, decks, code, statusByte) ==
  IF decks = <<>> THEN st
  ELSE LET s1 == Send(st, Head(decks), code, statusByte) IN
         IF Len(s1.reqs) >= 0 THEN SendEach(s1, Tail(decks), code, statusByte) ELSE s1

(* (opts && opts.deck) ? [opts.deck] : def.decks ; deck 0 stands for no   *)
(* opts.  For an inherited member def.decks is undefined and forEach on it *)
(* throws before anything is sent: no deck is visited                      *)
TargetDecks(name, deck) ==
  IF deck # 0 THEN <<deck>>
  ELSE IF name \in LedNames THEN LedDecks(name)
  ELSE <<>>

(* LedManager.setRaw(name, statusByte, opts) *)
SetRaw(st, name, statusByte, deck) ==
  IF ~HasDef(name) THEN st
  ELSE SendEach(st, TargetDecks(name, deck), DefCode(name), statusByte)

(* LedManager.set(name, status, opts) *)
Set(st, name, status, deck) ==
  IF ~HasDef(name) THEN st
  ELSE SendEach(st, TargetDecks(name, deck), DefCode(name), normalize(status))

RECURSIVE Bulk(_, _)
(* LedManager.bulk(map): map is the sequence of <<name, status>> entries,  *)
(* set one after the other in key order (the test on s1 only makes the     *)
(* evaluation of one entry finish before the next one starts)              *)
Bulk(st, map) ==
  IF map = <<>> THEN st
  ELSE LET s1 == Set(st, Head(map)[1], Head(map)[2], 0) IN
         IF Len(s1.reqs) >= 0 THEN Bulk(s1, Tail(map)) ELSE s1

(* LedManager.reflect(name, value, opts) *)
Reflect(st, name, value, deck) ==
  Set(st, name, IF Truthy(value) THEN "on" ELSE "off", deck)

(* LedManager.reflectAlt(name, value, opts) *)
ReflectAlt(st, name, value, deck) ==
  SetRaw(st, name, IF Truthy(value) THEN ALT_ON ELSE ALT_OFF, deck)

(* LedManager.raw(deck, code, status) *)
Raw(st, deck, code, status) == Send(st, deck, code, normalize(status))

AllMap(status) == [i \in 1..Len(LedOrder) |-> <<LedOrder[i], status>>]

(* a resetDefaults() that leaves vinylmode off *)
ResetAllOff(st) == Bulk(st, AllMap("off"))

(* a resetDefaults() that lights vinylmode before the sweep to OFF *)
ResetVinylFirst(st) == Bulk(Set(st, "vinylmode", "on", 0), AllMap("off"))

(* LedManager.resetDefaults() *)
ResetDefaults(st) == Set(Bulk(st, AllMap("off")), "vinylmode", "on", 0)

----------------------------------------------------------------------------
VARIABLES
  cache,      \* LedManager closure variable `cache`
  device,     \* output port: last status byte received per (deck, code)
  sent,       \* MIDI messages written by the last handler, in order
  reqs,       \* send() calls made by the last handler, in order
  ev,         \* the last handler that ran, with its arguments
  phase,      \* "loaded" (script evaluated), "ready" (init done), "down" (shutdown done)
  shiftHeld,  \* MC2000.shiftHeld
  shiftLock,  \* MC2000.shiftLock
  input,      \* per deck and shift-capable component: the handler bound to .input
  pressedBy,  \* per physical button: the handler its pending press went to
  notified,   \* per connected control: the last value the engine notified
  timers,     \* the engine's pending timers
  now,        \* the clock (Date.now()), in ms
  jogScratchActive,  \* MC2000.jogScratchActive[deck]
  jogReleaseTimer,   \* MC2000.jogReleaseTimer[deck]; 0 stands for null
  jogLastTickTime,   \* MC2000.jogLastTickTime[deck]
  jogTickCount,      \* MC2000.jogTickCount[deck]
  scratchMode,       \* MC2000.deck[group].scratchMode
  play,       \* engine: play of the deck (0 or 1)
  slip,       \* engine: slip_enabled of the deck (0 or 1)
  pos,        \* engine: playposition of the deck, in millionths
  scratchOn,  \* engine: scratch mode enabled for the deck
  calls,      \* engine calls made by the last handler, in order
  ticks,      \* per deck: the (time, branch) of each rotation jogTouch acted on
  blinks,     \* the running blink() closures: timer handle, LED name, on, fired, cycles
  eng,        \* engine: the value of the controls EngKeys of each deck
  longPressTimer  \* Deck.sync.longPressTimer of each deck; 0 is the script's own 0

ledVars == <<cache, device, sent, reqs>>
shiftVars == <<shiftHeld, shiftLock, input, pressedBy>>
timeVars == <<timers, now>>
jogVars == <<jogScratchActive, jogReleaseTimer, jogLastTickTime, jogTickCount,
             scratchMode, play, slip, pos, scratchOn, calls, ticks>>
vars == <<cache, device, sent, reqs, ev, phase, shiftHeld, shiftLock, input,
          pressedBy, notified, timers, now, jogScratchActive, jogReleaseTimer,
          jogLastTickTime, jogTickCount, scratchMode, play, slip, pos,
          scratchOn, calls, ticks, blinks, eng, longPressTimer>>

(* the handler record: op names the entry point; name, arg, deck and num   *)
(* hold its arguments (unused ones are "" and 0); aux is the handler that   *)
(* received the press of the button whose release is dispatched            *)
Ev(op, name, arg, deck, num) ==
  [op |-> op, name |-> name, arg |-> arg, deck |-> deck, num |-> num, aux |-> ""]

EmptyFn == [p \in Pairs |-> 0]

(* the LED manager's result st becomes the next state *)
LedCommit(st) ==
  /\ cache' = st.cache
  /\ device' = st.device
  /\ sent' = st.sent
  /\ reqs' = st.reqs

Cur == LedState(cache, device)

InitLed ==
  /\ cache = EmptyFn
  /\ device = EmptyFn
  /\ sent = <<>>
  /\ reqs = <<>>

----------------------------------------------------------------------------
(* Shift state machine and the deck components *)

(* the components of Deck.applyShiftState's list (and the hotcue buttons)  *)
(* that define both shift() and unshift(); sync and beatTapBtn, also in    *)
(* the list, define neither and keep their input                           *)
ShiftCtls ==
  {"cue", "keylock", "loadTrackBtn", "pitchBendUpBtn", "pitchBendDownBtn",
   "loopInBtn", "loopOutBtn", "loopHalveBtn", "loopDoubleBtn", "reloopExitBtn",
   "hotcue1", "hotcue2", "hotcue3", "hotcue4"}

Bindings == Decks \X ShiftCtls

(* MC2000.isButtonOn(value) *)
isButtonOn(value) == value = 127 \/ value = 64

(* MC2000.isShiftActive() *)
isShiftActive(held, lock) == held \/ lock

(* comp.shift() when shifted, comp.unshift() otherwise: the handler that   *)
(* ends up in comp.input                                                   *)
Rebind(comp, shifted) == IF shifted THEN "shifted" ELSE "normal"

(* an applyShiftState that forgets the hotcue buttons *)
ApplyShiftStateNoHotcues(inp, d, shifted) ==
  [k \in Bindings |->
     IF k[1] = d /\ k[2] \notin {"hotcue1", "hotcue2", "hotcue3", "hotcue4"}
     THEN Rebind(k[2], shifted) ELSE inp[k]]

(* Deck.applyShiftState(shifted) of deck d *)
ApplyShiftState(inp, d, shifted) ==
  [k \in Bindings |-> IF k[1] = d THEN Rebind(k[2], shifted) ELSE inp[k]]

(* updateShiftState(): the forEach over MC2000.decks (absent before init)  *)
UpdateDecks(inp, built, held, lock) ==
  IF ~built THEN inp
  ELSE ApplyShiftState(ApplyShiftState(inp, 1, held \/ lock), 2, held \/ lock)

BoolTok(b) == IF b THEN "true" ELSE "false"

(* an updateShiftState that lights the LED on the effective shift *)
UpdateShiftLedEffective(st, held, lock) ==
  Reflect(st, "shiftlock", BoolTok(held \/ lock), 0)

(* updateShiftState(): the shift lock LED, with MC2000.shiftHeld and       *)
(* MC2000.shiftLock as they are when it runs                               *)
UpdateShiftLed(st, held, lock) == Reflect(st, "shiftlock", BoolTok(lock), 0)

(* a chord test that takes a locked shift for a held one *)
IsLockChordActive(value, held, lock) == isButtonOn(value) /\ (held \/ lock)

(* pflButton: wasPressed && MC2000.shiftHeld *)
IsLockChord(value, held, lock) == isButtonOn(value) /\ held

Built == phase \in {"ready", "down"}

(* the physical buttons whose press is pending *)
Held == {k \in DOMAIN pressedBy : pressedBy[k] # "none"}

----------------------------------------------------------------------------
(* Timers: engine.beginTimer / engine.stopTimer.  A timer is a record of   *)
(* its handle, the callback it runs (kind, deck) and the time it is due.   *)

(* the handle beginTimer returns: the least one not in use *)
NewTimerId(ts) == CHOOSE i \in 1..(Cardinality(ts) + 1) : i \notin {t.id : t \in ts}

BeginTimer(ts, kind, deck, delay) ==
  ts \cup {[id |-> NewTimerId(ts), kind |-> kind, deck |-> deck, due |-> now + delay]}

StopTimer(ts, id) == {t \in ts : t.id # id}

(* a timer whose delay has elapsed fires before the clock moves past it *)
Due(t) == t \in timers /\ t.due <= now

SETTLE_DELAY == 1000

(* Date.now() when the script is loaded *)
Epoch == 1000

----------------------------------------------------------------------------
(* Lifecycle *)

(* the buttons whose press and release are followed *)
GestureCtls == {"cue", "loadTrackBtn"}
Buttons == Decks \X GestureCtls

(* the pitch-bend buttons *)
BendCtls == {"pitchBendUpBtn", "pitchBendDownBtn"}
BendButtons == Decks \X BendCtls
MaxHeld == 1
PressValues == {127, 64}

(* the connected controls whose engine value changes are followed:         *)
(* <<deck, component>>                                                     *)
NotifyCtls == {<<1, "play">>, <<1, "pfl">>}
EngineValues == {"n0", "n1"}

(* the sync button of each deck, beside the rebound buttons *)
SyncButtons == Decks \X {"sync"}

(* the engine controls of a deck whose value is followed; rateRange is in *)
(* hundredths (8 is 0.08)                                                  *)
EngKeys ==
  {"sync_enabled", "rate_temp_up", "rate_temp_down", "fwd", "back", "rateRange", "pfl",
   "keylock"}
DEFAULT_RATE_RANGE == 8

InitCtl ==
  /\ InitLed
  /\ ev = Ev("load", "", "", 0, 0)
  /\ phase = "loaded"
  /\ shiftHeld = FALSE
  /\ shiftLock = FALSE
  /\ input = [k \in Bindings |-> "normal"]
  /\ pressedBy = [k \in Buttons \cup SyncButtons \cup BendButtons |-> "none"]
  /\ notified = [k \in NotifyCtls |-> "none"]
  /\ timers = {}
  /\ now = Epoch
  /\ jogScratchActive = [d \in Decks |-> FALSE]
  /\ jogReleaseTimer = [d \in Decks |-> 0]
  /\ jogLastTickTime = [d \in Decks |-> 0]
  /\ jogTickCount = [d \in Decks |-> 0]
  /\ scratchMode = [d \in Decks |-> FALSE]
  /\ play = [d \in Decks |-> 0]
  /\ slip = [d \in Decks |-> 0]
  /\ pos = [d \in Decks |-> 0]
  /\ scratchOn = [d \in Decks |-> FALSE]
  /\ calls = <<>>
  /\ ticks = [d \in Decks |-> <<>>]
  /\ blinks = {}
  /\ eng = [k \in Decks \X EngKeys |-> IF k[2] = "rateRange" THEN DEFAULT_RATE_RANGE ELSE 0]
  /\ longPressTimer = [d \in Decks |-> 0]

(* buildComponents(): per deck applyShiftState(isShiftActive()), then the  *)
(* connect() calls, of which sampleModeToggle.connect writes its LED       *)
BuildLeds(st) ==
  Reflect(Reflect(st, "samplemode", "false", 1), "samplemode", "false", 2)

(* setDefaultMixerLevels(): the engine.setValue calls of one deck, values *)
(* in hundredths                                                          *)
DeckMixerDefaults(d) ==
  <<<<"setValue", d, "volume", 50>>, <<"setValue", d, "pregain", 100>>,
    <<"setValue", d, "parameter1", 100>>, <<"setValue", d, "parameter2", 100>>,
    <<"setValue", d, "parameter3", 100>>, <<"setValue", d, "rate", 0>>,
    <<"setValue", d, "rateRange", 8>>>>

(* setDefaultMixerLevels(): both decks, then the master section (deck 0) *)
(* and the two effect units                                              *)
MixerDefaults ==
  DeckMixerDefaults(1) \o DeckMixerDefaults(2) \o
  <<<<"setValue", 0, "volume", 50>>, <<"setValue", 0, "headMix", 50>>,
    <<"setValue", 0, "headVolume", 25>>, <<"setValue", 1, "mix", 0>>,
    <<"setValue", 2, "mix", 0>>>>

(* MC2000.init(id), both libraries present *)
InitOk ==
  /\ phase = "loaded"
  /\ phase' = "ready"
  /\ LedCommit(BuildLeds(Bulk(Cur, AllMap("on"))))
  /\ input' = UpdateDecks(input, TRUE, shiftHeld, shiftLock)
  /\ timers' = BeginTimer(timers, "settle", 0, SETTLE_DELAY)
  /\ calls' = MixerDefaults
  /\ eng' = [k \in Decks \X EngKeys |-> IF k[2] = "rateRange" THEN DEFAULT_RATE_RANGE ELSE eng[k]]
  /\ ev' = Ev("init", "", "", 0, 0)
  /\ UNCHANGED <<shiftHeld, shiftLock, pressedBy, notified, now>>
  /\ UNCHANGED <<jogScratchActive, jogReleaseTimer, jogLastTickTime, jogTickCount,
                 scratchMode, play, slip, pos, scratchOn, ticks, blinks, longPressTimer>>

(* the one-shot timer of init: resetDefaults(), then                  *)
(* engine.setValue("[Channel1]", "pfl", 1)                             *)
FireSettle ==
  \E t \in timers :
    /\ t.kind = "settle" /\ Due(t)
    /\ timers' = timers \ {t}
    /\ LedCommit(ResetDefaults(Cur))
    /\ calls' = <<<<"setValue", 1, "pfl", 1>>>>
    /\ eng' = [eng EXCEPT ![<<1, "pfl">>] = 1]
    /\ ev' = Ev("settleTimer", "", "", 0, 0)
    /\ UNCHANGED <<phase, shiftHeld, shiftLock, input, pressedBy, notified, now>>
    /\ UNCHANGED <<jogScratchActive, jogReleaseTimer, jogLastTickTime, jogTickCount,
                   scratchMode, play, slip, pos, scratchOn, ticks, blinks, longPressTimer>>

(* MC2000.shutdown() *)
Shutdown ==
  /\ phase = "ready"
  /\ phase' = "down"
  /\ LedCommit(ResetDefaults(Cur))
  /\ ev' = Ev("shutdown", "", "", 0, 0)
  /\ UNCHANGED <<shiftHeld, shiftLock, input, pressedBy, notified, timers, now>>
  /\ UNCHANGED jogVars
  /\ UNCHANGED <<blinks, eng, longPressTimer>>

(* the clock moves to the next pending timer *)
Advance ==
  /\ timers # {}
  /\ \A t \in timers : t.due > now
  /\ now' = CHOOSE x \in {t.due : t \in timers} : \A t \in timers : x <= t.due
  /\ LedCommit(Cur)
  /\ ev' = Ev("clock", "", "", 0, 0)
  /\ UNCHANGED <<phase, shiftHeld, shiftLock, input, pressedBy, notified, timers>>
  /\ UNCHANGED jogVars
  /\ UNCHANGED <<blinks, eng, longPressTimer>>

(* MC2000.toggleShift(channel, control, value) *)
ToggleShift ==
  \E value \in PressValues \cup {0} :
    /\ phase = "ready"
    /\ shiftHeld' = isButtonOn(value)
    /\ input' = UpdateDecks(input, Built, shiftHeld', shiftLock)
    /\ LedCommit(UpdateShiftLed(Cur, shiftHeld', shiftLock))
    /\ ev' = Ev("toggleShift", "", "", 0, value)
    /\ UNCHANGED <<phase, shiftLock, pressedBy, notified, timers, now>>
    /\ UNCHANGED jogVars
    /\ UNCHANGED <<blinks, eng, longPressTimer>>

(* a PFL button that sets the control instead of toggling it *)
PflInputSets(e, d, value) ==
  IF value > 0 THEN [e EXCEPT ![<<d, "pfl">>] = 1] ELSE e

(* Deck.pfl.input: a components.Button of type toggle on inKey "pfl";    *)
(* a press toggles the control, a release does nothing                   *)
PflInput(e, d, value) ==
  IF value > 0 THEN [e EXCEPT ![<<d, "pfl">>] = 1 - @] ELSE e

(* MC2000.pflButton(channel, control, value, status, group) *)
PflButton ==
  \E d \in Decks, value \in {127, 0} :
    /\ phase = "ready"
    /\ IF IsLockChord(value, shiftHeld, shiftLock)
       THEN /\ shiftLock' = ~shiftLock
            /\ input' = UpdateDecks(input, Built, shiftHeld, shiftLock')
            /\ LedCommit(UpdateShiftLed(Cur, shiftHeld, shiftLock'))
            /\ ev' = Ev("pflButton", "pfl", "chord", d, value)
            /\ UNCHANGED eng
       ELSE /\ UNCHANGED <<shiftLock, input>>
            /\ LedCommit(Cur)
            /\ eng' = PflInput(eng, d, value)
            /\ ev' = Ev("pflButton", "pfl", "input", d, value)
    /\ UNCHANGED <<phase, shiftHeld, pressedBy, notified, timers, now>>
    /\ UNCHANGED jogVars
    /\ UNCHANGED <<blinks, longPressTimer>>

(* the wrapper of a deck button: cueButton first re-applies the shift      *)
(* state to its deck, the others call comp.input at once                   *)
WrapperBindings(inp, c, d, held, lock) ==
  IF c = "cue" THEN ApplyShiftState(inp, d, isShiftActive(held, lock)) ELSE inp

(* the engine control a pitch-bend button's handler writes: normalInput   *)
(* rate_temp_up / rate_temp_down, shiftedInput fwd / back                 *)
BendKey(c, handler) ==
  IF c = "pitchBendUpBtn"
  THEN (IF handler = "shifted" THEN "fwd" ELSE "rate_temp_up")
  ELSE (IF handler = "shifted" THEN "back" ELSE "rate_temp_down")

(* comp.input of button k bound to handler, for a message value: the      *)
(* pitch-bend buttons write 1 when the button is on and 0 otherwise       *)
BendInput(e, k, handler, value) ==
  IF k[2] \in BendCtls
  THEN [e EXCEPT ![<<k[1], BendKey(k[2], handler)>>] = IF isButtonOn(value) THEN 1 ELSE 0]
  ELSE e

(* a deck button goes down: its wrapper dispatches to comp.input *)
ButtonPress ==
  \E k \in Buttons, value \in {127} :
    /\ phase = "ready"
    /\ pressedBy[k] = "none"
    /\ Cardinality(Held) < MaxHeld
    /\ input' = WrapperBindings(input, k[2], k[1], shiftHeld, shiftLock)
    /\ pressedBy' = [pressedBy EXCEPT ![k] = input'[k]]
    /\ LedCommit(Cur)
    /\ ev' = Ev("button", k[2], input'[k], k[1], value)
    /\ UNCHANGED <<phase, shiftHeld, shiftLock, notified, timers, now>>
    /\ UNCHANGED jogVars
    /\ UNCHANGED <<blinks, eng, longPressTimer>>

(* the button comes up again *)
ButtonRelease ==
  \E k \in Buttons :
    /\ phase = "ready"
    /\ pressedBy[k] # "none"
    /\ input' = WrapperBindings(input, k[2], k[1], shiftHeld, shiftLock)
    /\ pressedBy' = [pressedBy EXCEPT ![k] = "none"]
    /\ LedCommit(Cur)
    /\ ev' = [Ev("button", k[2], input'[k], k[1], 0) EXCEPT !.aux = pressedBy[k]]
    /\ UNCHANGED <<phase, shiftHeld, shiftLock, notified, timers, now>>
    /\ UNCHANGED jogVars
    /\ UNCHANGED <<blinks, eng, longPressTimer>>

(* the LED a connected component's output(value) reflects to *)
OutputLed(st, c, d, value) ==
  IF c = "pfl"
  THEN ReflectAlt(st, IF d = 1 THEN "monitorcue_l" ELSE "monitorcue_r", value, d)
  ELSE Reflect(st, c, value, d)

(* the engine notifies a connected control of its value: comp.output(value) *)
EngineNotify ==
  \E k \in NotifyCtls, value \in EngineValues :
    /\ phase = "ready"
    /\ notified' = [notified EXCEPT ![k] = value]
    /\ LedCommit(OutputLed(Cur, k[2], k[1], value))
    /\ ev' = Ev("output", k[2], value, k[1], 0)
    /\ UNCHANGED <<phase, shiftHeld, shiftLock, input, pressedBy, timers, now>>
    /\ UNCHANGED jogVars
    /\ UNCHANGED <<blinks, eng, longPressTimer>>

Next ==
  \/ InitOk
  \/ FireSettle
  \/ Shutdown
  \/ Advance
  \/ ToggleShift
  \/ PflButton
  \/ ButtonPress
  \/ ButtonRelease

Spec == InitCtl /\ [][Next]_vars

(* the output side: engine notifications among the lifecycle and the shift *)
(* events                                                                  *)
NextOut ==
  \/ InitOk
  \/ FireSettle
  \/ Shutdown
  \/ Advance
  \/ ToggleShift
  \/ PflButton
  \/ EngineNotify

SpecOut == InitCtl /\ [][NextOut]_vars

-----
(* Direct calls of the LED manager's public API *)

ApiNames == {"play", "sampler7", "nosuch"}
ApiDecks == {0, 2}
ApiStatuses == {"off", "on", "n2", "false"}
ApiValues == {"n0", "n1"}
ApiBytes == {ALT_ON}
ApiCodes == {39}
ApiMaps ==
  { <<>>,
    << <<"play", "on">>, <<"nosuch", "on">> >>,
    << <<"samp3_r", "on">>, <<"sampler7", "off">> >>,
    << <<"sampler7", "blink">>, <<"sampler7", "blink">> >> }

ApiSet ==
  \E name \in ApiNames, status \in ApiStatuses, deck \in ApiDecks :
    /\ LedCommit(Set(Cur, name, status, deck))
    /\ ev' = Ev("set", name, status, deck, 0)
    /\ UNCHANGED <<phase, shiftHeld, shiftLock, input, pressedBy, notified, timers, now>>
    /\ UNCHANGED jogVars
    /\ UNCHANGED <<blinks, eng, longPressTimer>>

ApiBulk ==
  \E map \in ApiMaps :
    /\ LedCommit(Bulk(Cur, map))
    /\ ev' = Ev("bulk", "", "", 0, Len(map))
    /\ UNCHANGED <<phase, shiftHeld, shiftLock, input, pressedBy, notified, timers, now>>
    /\ UNCHANGED jogVars
    /\ UNCHANGED <<blinks, eng, longPressTimer>>

ApiReflect ==
  \E name \in ApiNames, value \in ApiValues, deck \in ApiDecks :
    /\ LedCommit(Reflect(Cur, name, value, deck))
    /\ ev' = Ev("reflect", name, value, deck, 0)
    /\ UNCHANGED <<phase, shiftHeld, shiftLock, input, pressedBy, notified, timers, now>>
    /\ UNCHANGED jogVars
    /\ UNCHANGED <<blinks, eng, longPressTimer>>

ApiRaw ==
  \E deck \in Decks, code \in ApiCodes, status \in ApiStatuses :
    /\ LedCommit(Raw(Cur, deck, code, status))
    /\ ev' = Ev("raw", "", status, deck, code)
    /\ UNCHANGED <<phase, shiftHeld, shiftLock, input, pressedBy, notified, timers, now>>
    /\ UNCHANGED jogVars
    /\ UNCHANGED <<blinks, eng, longPressTimer>>

ApiSetRaw ==
  \E name \in ApiNames, statusByte \in ApiBytes, deck \in ApiDecks :
    /\ LedCommit(SetRaw(Cur, name, statusByte, deck))
    /\ ev' = Ev("setRaw", name, "", deck, statusByte)
    /\ UNCHANGED <<phase, shiftHeld, shiftLock, input, pressedBy, notified, timers, now>>
    /\ UNCHANGED jogVars
    /\ UNCHANGED <<blinks, eng, longPressTimer>>

ApiReflectAlt ==
  \E name \in ApiNames, value \in ApiValues, deck \in ApiDecks :
    /\ LedCommit(ReflectAlt(Cur, name, value, deck))
    /\ ev' = Ev("reflectAlt", name, value, deck, 0)
    /\ UNCHANGED <<phase, shiftHeld, shiftLock, input, pressedBy, notified, timers, now>>
    /\ UNCHANGED jogVars
    /\ UNCHANGED <<blinks, eng, longPressTimer>>

ApiResetDefaults ==
  /\ LedCommit(ResetDefaults(Cur))
  /\ ev' = Ev("resetDefaults", "", "", 0, 0)
  /\ UNCHANGED <<phase, shiftHeld, shiftLock, input, pressedBy, notified, timers, now>>
  /\ UNCHANGED jogVars
  /\ UNCHANGED <<blinks, eng, longPressTimer>>

InitApi == InitCtl

NextLed ==
  \/ ApiSet
  \/ ApiBulk
  \/ ApiReflect
  \/ ApiRaw
  \/ ApiSetRaw
  \/ ApiReflectAlt
  \/ ApiResetDefaults

SpecLed == InitApi /\ [][NextLed]_vars

----------------------------------------------------------------------------
RECURSIVE Forwarded(_, _)
(* the requests of rq that differ from the last byte the device received   *)
(* for their pair, dev being the bytes received before the first of them   *)
Forwarded(dev, rq) ==
  IF rq = <<>> THEN <<>>
  ELSE LET r == Head(rq)
           k == <<r[1], r[2]>> IN
         IF dev[k] = r[3] THEN Forwarded(dev, Tail(rq))
         ELSE <<r>> \o Forwarded([dev EXCEPT ![k] = r[3]], Tail(rq))

SamePair(r1, r2) == r1[1] = r2[1] /\ r1[2] = r2[2]

(* C1: every write the LED manager is asked for (set, bulk, reflect,       *)
(* reflectAlt, raw, setRaw) reaches the device if and only if its status   *)
(* byte differs from the last byte sent for that (deck, code) pair; of two *)
(* consecutive identical writes to one pair the second sends nothing, and  *)
(* a following write with another status sends exactly one message.        *)
C1_DedupExact ==
  [][ /\ sent' = Forwarded(device, reqs')
      /\ (Len(reqs) = 1 /\ Len(reqs') = 1 /\ SamePair(reqs[1], reqs'[1])) =>
            IF reqs'[1][3] = reqs[1][3] THEN sent' = <<>> ELSE sent' = reqs'
    ]_vars

(* C1 witness: a set() on a shared LED of which one deck is suppressed     *)
(* and the other forwarded                                                 *)
C1_Witness == ev.op = "set" /\ Len(reqs) = 2 /\ Len(sent) = 1

IsSetOffNoTarget(e) ==
  e.op = "set" /\ e.arg = "off" /\ e.deck = 0 /\ e.name \in LedNames

(* C2 as stated: set(name, 'off') called twice in a row without a target   *)
(* issues exactly one device write in total.                               *)
C2_ExactlyOneWrite ==
  [][(IsSetOffNoTarget(ev) /\ ev' = ev) => Len(sent) + Len(sent') = 1]_vars

RECURSIVE OffWrites(_, _, _)
OffWrites(dev, decks, code) ==
  IF decks = <<>> THEN <<>>
  ELSE (IF dev[<<Head(decks), code>>] = LED_OFF THEN <<>>
        ELSE << <<Head(decks), code, LED_OFF>> >>)
       \o OffWrites(dev, Tail(decks), code)

(* C2 amended: set(name, 'off') without a target writes OFF once to each   *)
(* deck of the LED whose last byte was not OFF (two writes for a shared    *)
(* LED), and a second identical call in a row writes nothing.              *)
C2_SecondOffSilent ==
  [][IsSetOffNoTarget(ev') =>
        /\ sent' = OffWrites(device, LedDecks(ev'.name), LedCode(ev'.name))
        /\ (ev = ev' => sent' = <<>>)
    ]_vars

(* C2 witness: set(name, 'off') on a shared LED reached both decks, which  *)
(* were OFF already: nothing was written                                   *)
C2_Witness == IsSetOffNoTarget(ev) /\ Len(reqs) = 2 /\ sent = <<>>

----------------------------------------------------------------------------
IsRelease(e) == e.op = "button" /\ e.num = 0

(* C3 as stated: the handler (normal or shifted) that received a button's  *)
(* press is the handler that receives the matching release, whatever       *)
(* toggleShift or the lock chord did in between.                           *)
C3_ReleaseSameHandler == IsRelease(ev) => ev.arg = ev.aux

(* C4: once init has built the decks, every shift-capable component of     *)
(* both decks has its shifted handler bound if and only if shiftHeld or    *)
(* shiftLock is true.                                                      *)
C4_BindingsFollowShift ==
  Built => \A k \in Bindings :
             (input[k] = "shifted") <=> (shiftHeld \/ shiftLock)

(* C4 witness: the modifier was released while the lock is on, and the     *)
(* shifted handlers are still bound                                        *)
C4_Witness ==
  /\ ev.op = "toggleShift" /\ ev.num = 0
  /\ shiftLock /\ ~shiftHeld
  /\ \A k \in Bindings : input[k] = "shifted"

IsChord(e) == e.op = "pflButton" /\ e.arg = "chord"

(* C5: shiftHeld changes only in toggleShift and shiftLock only in the     *)
(* chord (PFL pressed while the modifier is held); toggleShift leaves      *)
(* shiftLock, and the chord leaves shiftHeld, unchanged.                   *)
C5_ShiftFlagsFrame ==
  [][ /\ (shiftHeld' # shiftHeld) => ev'.op = "toggleShift"
      /\ (shiftLock' # shiftLock) =>
            IsChord(ev') /\ isButtonOn(ev'.num) /\ shiftHeld
      /\ (ev'.op = "toggleShift") =>
            shiftLock' = shiftLock /\ shiftHeld' = isButtonOn(ev'.num)
      /\ IsChord(ev') => shiftHeld' = shiftHeld /\ shiftLock' = ~shiftLock
    ]_vars

(* C5 witness: the chord has set the lock while the modifier is held *)
C5_Witness == IsChord(ev) /\ shiftLock /\ shiftHeld

LockByte == IF shiftLock THEN LED_ON ELSE LED_OFF
WrittenPairs == {<<reqs[i][1], reqs[i][2]>> : i \in 1..Len(reqs)}

(* C6 as stated: each time the lock is toggled the lock indicator is       *)
(* written ON when shiftLock is true and OFF otherwise, and exactly one    *)
(* (deck, code) pair is written for it.                                    *)
C6_OnePairWritten ==
  IsChord(ev) =>
    /\ Cardinality(WrittenPairs) = 1
    /\ \A i \in 1..Len(reqs) : reqs[i][3] = LockByte

(* C6 amended: each time the lock is toggled the LED manager is asked to   *)
(* write the shiftlock code (2) on both decks, ON when shiftLock is true   *)
(* and OFF otherwise, and no other pair; afterwards the last byte sent to  *)
(* both pairs is that status.                                              *)
C6_LockLedBothDecks ==
  IsChord(ev) =>
    /\ reqs = << <<1, LedCode("shiftlock"), LockByte>>,
                 <<2, LedCode("shiftlock"), LockByte>> >>
    /\ \A i \in 1..Len(sent) : \E j \in 1..Len(reqs) : sent[i] = reqs[j]
    /\ device[<<1, LedCode("shiftlock")>>] = LockByte
    /\ device[<<2, LedCode("shiftlock")>>] = LockByte

(* C6 witness: the chord has switched the lock off and both decks' lock    *)
(* LEDs were written                                                       *)
C6_Witness == IsChord(ev) /\ ~shiftLock /\ Len(sent) = 2

LedPair(k) ==
  IF k[2] = "pfl"
  THEN <<k[1], LedCode(IF k[1] = 1 THEN "monitorcue_l" ELSE "monitorcue_r")>>
  ELSE <<k[1], LedCode(k[2])>>

OnByte(k) == IF k[2] = "pfl" THEN ALT_ON ELSE LED_ON

(* C7 as stated: after init the status last sent for the LED of a          *)
(* connected button is ON if and only if the value the engine last         *)
(* notified for it is truthy, whatever shift transitions, LED resets or    *)
(* timers occurred in between.                                             *)
C7_LedReflectsEngine ==
  phase = "ready" =>
    \A k \in NotifyCtls :
      notified[k] # "none" =>
        ((device[LedPair(k)] = OnByte(k)) <=> Truthy(notified[k]))

----------------------------------------------------------------------------
(* The jog-wheel interpreter.  Numbers with a fraction are kept in fixed   *)
(* point: scale factors and the values handed to scratchTick and "jog" in  *)
(* hundredths, playposition in millionths.                                 *)

jogCenter == 64
jogResolution == 96
JOG_IDLE_MS == 150
JOG_RELEASE_MS == 50
(* jogMaxScaling = 1.25, in hundredths *)
jogMaxScaling == 125
(* jogPitchScale = 1/4, in hundredths *)
jogPitchScale == 25
(* jogScrubScaling = 0.0001: one unit of delta at factor 1.00 is 100 millionths *)
POS_ONE == 1000000

(* the wheels stop sending once jogTouch acted on this many rotations *)
MaxRotations == 3

(* raw values of the relative encoder that are sent *)
RawValues == {64, 65}

(* offsets from Epoch, in ms, at which the wheels send and the deck is *)
(* started or stopped                                                  *)
JogInstants == {0, 30, 80}

(* further offsets at which the clock stops *)
WatchInstants == {79, 81}

Min(a, b) == IF a < b THEN a ELSE b

(* a decode around 63 instead of the center *)
MovementCenter63(value) ==
  LET m0 == value - (jogCenter - 1)
      m1 == IF m0 > 64 THEN m0 - 128 ELSE m0
  IN IF m1 < -64 THEN m1 + 128 ELSE m1

(* a decode with the sign of the rotation inverted *)
MovementMirrored(value) ==
  LET m0 == jogCenter - value
      m1 == IF m0 > 64 THEN m0 - 128 ELSE m0
  IN IF m1 < -64 THEN m1 + 128 ELSE m1

(* movement = value - jogCenter, wrapped *)
Movement(value) ==
  LET m0 == value - jogCenter
      m1 == IF m0 > 64 THEN m0 - 128 ELSE m0
  IN IF m1 < -64 THEN m1 + 128 ELSE m1

(* a handler that goes on with a delta of zero *)
IsZeroMoveNever(value) == FALSE

(* if (movement === 0) return; *)
IsZeroMove(value) == Movement(value) = 0

(* Math.min(1 + count / 10, jogMaxScaling) *)
SpeedFactor(count) == Min(100 + 10 * count, jogMaxScaling)

(* a clamp that checks the lower bound only *)
ClampLowOnly(p) == IF p < 0 THEN 0 ELSE p

(* if (pos < 0) pos = 0; if (pos > 1) pos = 1; *)
Clamp(p) == IF p < 0 THEN 0 ELSE IF p > POS_ONE THEN POS_ONE ELSE p

JogTimers(ts, d) == {t \in ts : t.kind = "jogRelease" /\ t.deck = d}

(* a reschedule that arms the new timer without stopping the old one *)
RearmNoCancel(ts, handle, d) ==
  BeginTimer(ts, "jogRelease", d, JOG_RELEASE_MS)

(* a reschedule that stops the release timers of both decks *)
RearmCancelsAll(ts, handle, d) ==
  BeginTimer({t \in ts : t.kind # "jogRelease"}, "jogRelease", d, JOG_RELEASE_MS)

(* stopTimer of the stored handle if there is one, then beginTimer(50) *)
Rearm(ts, handle, d) ==
  BeginTimer(IF handle # 0 THEN StopTimer(ts, handle) ELSE ts,
             "jogRelease", d, JOG_RELEASE_MS)

(* the handle the reschedule stores *)
RearmHandle(ts, handle, d) ==
  NewTimerId(IF handle # 0 THEN StopTimer(ts, handle) ELSE ts)

(* an entry that enables slip and scratch mode on every scratch tick *)
EnterCallsEveryTick(d, enter) ==
  <<<<"setValue", d, "slip_enabled", 1>>, <<"scratchEnable", d, "", jogResolution>>>>

(* the engine calls of the scratch branch before scratchTick: on entering *)
(* (the unit was not scratching) slip_enabled is set unless the engine    *)
(* reports it set, and scratchEnable(deckNum, jogResolution, jogRpm,      *)
(* jogScratchAlpha, jogScratchBeta) is called                             *)
EnterCalls(d, enter) ==
  (IF enter /\ slip[d] = 0 THEN <<<<"setValue", d, "slip_enabled", 1>>>> ELSE <<>>)
  \o (IF enter THEN <<<<"scratchEnable", d, "", jogResolution>>>> ELSE <<>>)

(* body of MC2000.jogTouch for a deck and a raw value *)
JogTouchBody(d, value) ==
  LET movement == Movement(value)
      count == (IF now - jogLastTickTime[d] > JOG_IDLE_MS THEN 0 ELSE jogTickCount[d]) + 1
      speedFactor == SpeedFactor(count)
      enter == ~jogScratchActive[d]
  IN IF IsZeroMove(value)
     THEN /\ calls' = <<>>
          /\ UNCHANGED <<jogScratchActive, jogReleaseTimer, jogLastTickTime,
                         jogTickCount, scratchMode, slip, pos, scratchOn, timers, ticks>>
     ELSE /\ jogTickCount' = [jogTickCount EXCEPT ![d] = count]
          /\ jogLastTickTime' = [jogLastTickTime EXCEPT ![d] = now]
          /\ IF play[d] = 1
             THEN /\ slip' = [slip EXCEPT ![d] = IF enter THEN 1 ELSE @]
                  /\ scratchOn' = [scratchOn EXCEPT ![d] = IF enter THEN TRUE ELSE @]
                  /\ jogScratchActive' = [jogScratchActive EXCEPT ![d] = TRUE]
                  /\ scratchMode' = [scratchMode EXCEPT ![d] = IF enter THEN TRUE ELSE @]
                  /\ timers' = Rearm(timers, jogReleaseTimer[d], d)
                  /\ jogReleaseTimer' =
                       [jogReleaseTimer EXCEPT ![d] = RearmHandle(timers, jogReleaseTimer[d], d)]
                  /\ calls' = EnterCalls(d, enter)
                                 \o <<<<"scratchTick", d, "", movement * speedFactor>>>>
                  /\ ticks' = [ticks EXCEPT ![d] = Append(@, <<now, "scratch">>)]
                  /\ UNCHANGED pos
             ELSE LET effectiveScaling == IF count > 3 THEN speedFactor ELSE 100
                      p == Clamp(pos[d] + movement * effectiveScaling)
                  IN /\ pos' = [pos EXCEPT ![d] = p]
                     /\ calls' = <<<<"setValue", d, "playposition", p>>>>
                     /\ ticks' = [ticks EXCEPT ![d] = Append(@, <<now, "scrub">>)]
                     /\ UNCHANGED <<jogScratchActive, jogReleaseTimer, scratchMode,
                                    slip, scratchOn, timers>>

(* the wheels send only at the instants of JogInstants, and only while *)
(* fewer than MaxRotations rotations were acted on                      *)
JogInstant == now - Epoch \in JogInstants

Rotations == Len(ticks[1]) + Len(ticks[2])

JogFrame ==
  /\ LedCommit(Cur)
  /\ UNCHANGED <<phase, shiftHeld, shiftLock, input, pressedBy, notified, now, blinks, eng, longPressTimer>>

(* MC2000.jogTouch(channel, control, value, status, group) *)
JogTouch ==
  \E d \in Decks, value \in RawValues :
    /\ phase = "ready" /\ JogInstant
    /\ Rotations < MaxRotations
    /\ JogTouchBody(d, value)
    /\ ev' = Ev("jogTouch", "", "", d, value)
    /\ UNCHANGED play
    /\ JogFrame

(* a nudge that also counts the rotation as a tick *)
JogNudgeCounts(d, value) ==
  /\ calls' = <<<<"setValue", d, "jog", Movement(value) * jogPitchScale>>>>
  /\ jogTickCount' = [jogTickCount EXCEPT ![d] = @ + 1]
  /\ jogLastTickTime' = [jogLastTickTime EXCEPT ![d] = now]
  /\ UNCHANGED <<jogScratchActive, jogReleaseTimer, scratchMode, slip, pos,
                 scratchOn, timers, ticks>>

(* jogWheel for a unit that is not scratching: *)
(* engine.setValue(group, "jog", movement * jogPitchScale)                *)
JogNudge(d, value) ==
  /\ calls' = <<<<"setValue", d, "jog", Movement(value) * jogPitchScale>>>>
  /\ UNCHANGED <<jogScratchActive, jogReleaseTimer, jogLastTickTime,
                 jogTickCount, scratchMode, slip, pos, scratchOn, timers, ticks>>

(* MC2000.jogWheel(channel, control, value, status, group) *)
JogWheel ==
  \E d \in Decks, value \in RawValues :
    /\ phase = "ready" /\ JogInstant
    /\ Rotations < MaxRotations
    /\ IF ~IsZeroMove(value) /\ ~jogScratchActive[d]
       THEN JogNudge(d, value)
       ELSE JogTouchBody(d, value)
    /\ ev' = Ev("jogWheel", "", "", d, value)
    /\ UNCHANGED play
    /\ JogFrame

(* a release callback that leaves slip_enabled as it is *)
JogReleaseKeepsSlip(d) ==
  /\ scratchOn' = [scratchOn EXCEPT ![d] = FALSE]
  /\ jogScratchActive' = [jogScratchActive EXCEPT ![d] = FALSE]
  /\ scratchMode' = [scratchMode EXCEPT ![d] = FALSE]
  /\ slip' = slip
  /\ jogReleaseTimer' = [jogReleaseTimer EXCEPT ![d] = 0]
  /\ calls' = <<<<"scratchDisable", d, "", 0>>>>

(* a release callback that leaves the stored timer handle in place *)
JogReleaseKeepsHandle(d) ==
  /\ scratchOn' = [scratchOn EXCEPT ![d] = FALSE]
  /\ jogScratchActive' = [jogScratchActive EXCEPT ![d] = FALSE]
  /\ scratchMode' = [scratchMode EXCEPT ![d] = FALSE]
  /\ slip' = [slip EXCEPT ![d] = 0]
  /\ UNCHANGED jogReleaseTimer
  /\ calls' = <<<<"scratchDisable", d, "", 0>>, <<"setValue", d, "slip_enabled", 0>>>>

(* a release callback that leaves the deck's scratchMode flag set *)
JogReleaseKeepsMode(d) ==
  /\ scratchOn' = [scratchOn EXCEPT ![d] = FALSE]
  /\ jogScratchActive' = [jogScratchActive EXCEPT ![d] = FALSE]
  /\ UNCHANGED scratchMode
  /\ slip' = [slip EXCEPT ![d] = 0]
  /\ jogReleaseTimer' = [jogReleaseTimer EXCEPT ![d] = 0]
  /\ calls' = <<<<"scratchDisable", d, "", 0>>, <<"setValue", d, "slip_enabled", 0>>>>

(* the callback of the release timer *)
JogRelease(d) ==
  /\ scratchOn' = [scratchOn EXCEPT ![d] = FALSE]
  /\ jogScratchActive' = [jogScratchActive EXCEPT ![d] = FALSE]
  /\ scratchMode' = [scratchMode EXCEPT ![d] = FALSE]
  /\ slip' = [slip EXCEPT ![d] = 0]
  /\ jogReleaseTimer' = [jogReleaseTimer EXCEPT ![d] = 0]
  /\ calls' = <<<<"scratchDisable", d, "", 0>>, <<"setValue", d, "slip_enabled", 0>>>>

(* the engine fires a due release timer (one-shot) *)
FireJogRelease ==
  \E t \in timers :
    /\ t.kind = "jogRelease" /\ Due(t)
    /\ timers' = timers \ {t}
    /\ JogRelease(t.deck)
    /\ ev' = Ev("jogReleaseTimer", "", "", t.deck, t.id)
    /\ UNCHANGED <<jogLastTickTime, jogTickCount, play, pos, ticks>>
    /\ JogFrame

(* the deck is started or stopped (the engine's play control changes), *)
(* while the wheels still send                                          *)
PlayChange ==
  \E d \in Decks :
    /\ phase = "ready" /\ JogInstant /\ Rotations < MaxRotations
    /\ play' = [play EXCEPT ![d] = 1 - @]
    /\ calls' = <<>>
    /\ ev' = Ev("play", "", "", d, 1 - play[d])
    /\ UNCHANGED <<jogScratchActive, jogReleaseTimer, jogLastTickTime, jogTickCount,
                   scratchMode, slip, pos, scratchOn, timers, ticks>>
    /\ JogFrame

(* the clock moves to the next instant of the wheels or the next timer, *)
(* whichever is first; it never passes a timer that is due               *)
JogAdvance ==
  LET next == {Epoch + i : i \in JogInstants \cup WatchInstants} \cup {t.due : t \in timers}
      later == {x \in next : x > now}
  IN /\ \A t \in timers : t.due > now
     /\ later # {}
     /\ now' = CHOOSE x \in later : \A y \in later : x <= y
     /\ LedCommit(Cur)
     /\ ev' = Ev("clock", "", "", 0, 0)
     /\ UNCHANGED <<phase, shiftHeld, shiftLock, input, pressedBy, notified, timers>>
     /\ UNCHANGED jogVars
     /\ UNCHANGED <<blinks, eng, longPressTimer>>

NextJog ==
  \/ InitOk
  \/ FireSettle
  \/ JogTouch
  \/ JogWheel
  \/ FireJogRelease
  \/ PlayChange
  \/ JogAdvance

SpecJog == InitCtl /\ [][NextJog]_vars

(* time passes, and a release timer that is due eventually fires *)
SpecJogFair ==
  /\ SpecJog
  /\ WF_vars(JogAdvance)
  /\ WF_vars(FireJogRelease)

----------------------------------------------------------------------------
(* States of a unit of the jog interpreter *)
Scratching(d) == jogScratchActive[d] /\ scratchOn[d]
Idle(d) == ~jogScratchActive[d] /\ ~scratchOn[d]

(* the rotations of the timeline: jogTouch took the scratch branch at *)
(* t = 0 and at t = 30 ms                                              *)
TickAt0 == <<Epoch, "scratch">>
TickAt30 == <<Epoch + 30, "scratch">>

(* C8: with the deck playing, after the tick at t=0 (the unit's first)    *)
(* the unit is SCRATCHING with slip enabled; after the ticks at t=0 and   *)
(* t=30ms and no later one, the unit is SCRATCHING up to t=79ms with      *)
(* exactly one release timer pending, due at t=80ms and held in the       *)
(* unit's handle, and from t=81ms on it is IDLE with slip disabled.       *)
C8_ScratchTimeline ==
  \A d \in Decks :
    /\ (ticks[d] = <<TickAt0>> /\ now < Epoch + JOG_RELEASE_MS)
         => Scratching(d) /\ slip[d] = 1
    /\ (ticks[d] = <<TickAt0, TickAt30>> /\ now <= Epoch + 79)
         => /\ Scratching(d)
            /\ \E t \in timers :
                 /\ JogTimers(timers, d) = {t}
                 /\ t.due = Epoch + 30 + JOG_RELEASE_MS
                 /\ t.id = jogReleaseTimer[d]
    /\ (ticks[d] = <<TickAt0, TickAt30>> /\ now >= Epoch + 81)
         => Idle(d) /\ slip[d] = 0 /\ JogTimers(timers, d) = {}

C8_Witness ==
  /\ ticks[1] = <<TickAt0, TickAt30>>
  /\ now = Epoch + 81
  /\ Idle(1) /\ slip[1] = 0

(* C9: a unit that is SCRATCHING eventually is IDLE with the engine's     *)
(* scratch mode disabled, slip_enabled cleared and the timer handle       *)
(* null, given that every pending timer eventually fires (the wheels      *)
(* send finitely many rotations).                                         *)
C9_EventuallyIdle ==
  \A d \in Decks :
    jogScratchActive[d] ~> (Idle(d) /\ slip[d] = 0 /\ jogReleaseTimer[d] = 0)

C9_Witness ==
  /\ ev.op = "jogReleaseTimer" /\ ev.deck = 2
  /\ Len(ticks[2]) > 0
  /\ Idle(2) /\ slip[2] = 0 /\ jogReleaseTimer[2] = 0

Max(S) == CHOOSE x \in S : \A y \in S : y <= x

(* when jogTouch last took the scratch branch for the deck, 0 if never *)
LastScratchTime(d) ==
  LET idx == {i \in 1..Len(ticks[d]) : ticks[d][i][2] = "scratch"}
  IN IF idx = {} THEN 0 ELSE ticks[d][Max(idx)][1]

(* C10: per unit at most one release timer is pending and it is the one   *)
(* the unit's handle names (a null handle means none is pending); a tick  *)
(* that reschedules leaves only the timer it armed, due 50 ms later; and  *)
(* a unit leaves SCRATCHING only by the firing of the timer its handle    *)
(* named, which is the one armed by the unit's latest scratch tick.       *)
C10_OnlyLatestTimerReleases ==
  [][\A d \in Decks :
       /\ Cardinality(JogTimers(timers', d)) <= 1
       /\ \A t \in JogTimers(timers', d) : t.id = jogReleaseTimer'[d]
       /\ jogReleaseTimer'[d] # 0 => JogTimers(timers', d) # {}
       /\ (Len(ticks'[d]) > Len(ticks[d]) /\ LastScratchTime(d)' = now)
            => \E t \in timers' : /\ JogTimers(timers', d) = {t}
                                  /\ t.due = now + JOG_RELEASE_MS
       /\ (jogScratchActive[d] /\ ~jogScratchActive'[d])
            => /\ ev'.op = "jogReleaseTimer" /\ ev'.deck = d
               /\ ev'.num = jogReleaseTimer[d]
               /\ \E t \in JogTimers(timers, d) :
                    /\ timers' = timers \ {t}
                    /\ t.due = LastScratchTime(d) + JOG_RELEASE_MS]_vars

(* the tick at t=80ms arrives before the timer due at t=80ms fired: the *)
(* unit stays SCRATCHING (no second scratchEnable) with the new timer   *)
C10_Witness ==
  \E d \in Decks :
    /\ now = Epoch + 80
    /\ ticks[d] = <<TickAt30, <<Epoch + 80, "scratch">>>>
    /\ ev.op = "jogTouch" /\ ev.deck = d /\ Len(calls) = 1
    /\ jogScratchActive[d]
    /\ \E t \in timers : JogTimers(timers, d) = {t} /\ t.due = Epoch + 80 + JOG_RELEASE_MS

----------------------------------------------------------------------------
(* The wheel of one deck over a longer time line, with the engine's slip   *)
(* flag and play position also changed from outside the script.            *)

(* the wheel stops sending once jogTouch acted on this many rotations *)
MaxRampRotations == 4

RampDecks == {1}

(* raw values sent: deltas -64 and +63 *)
RampValues == {0, 127}

(* offsets from Epoch, in ms: 150 ms and 151 ms apart *)
RampInstants == {0, 150, 301}

(* play positions, in millionths, the engine is moved to *)
SeekTargets == {3000, 999900}

RampInstant == now - Epoch \in RampInstants /\ Rotations < MaxRampRotations

(* MC2000.jogTouch(channel, control, value, status, group) *)
RampTouch ==
  \E d \in RampDecks, value \in RampValues :
    /\ phase = "ready" /\ RampInstant
    /\ JogTouchBody(d, value)
    /\ ev' = Ev("jogTouch", "", "", d, value)
    /\ UNCHANGED play
    /\ JogFrame

(* MC2000.jogWheel(channel, control, value, status, group) *)
RampWheel ==
  \E d \in RampDecks, value \in RampValues :
    /\ phase = "ready" /\ RampInstant
    /\ IF ~IsZeroMove(value) /\ ~jogScratchActive[d]
       THEN JogNudge(d, value)
       ELSE JogTouchBody(d, value)
    /\ ev' = Ev("jogWheel", "", "", d, value)
    /\ UNCHANGED play
    /\ JogFrame

(* the deck is started or stopped *)
RampPlay ==
  \E d \in RampDecks :
    /\ phase = "ready" /\ RampInstant
    /\ play' = [play EXCEPT ![d] = 1 - @]
    /\ calls' = <<>>
    /\ ev' = Ev("play", "", "", d, 1 - play[d])
    /\ UNCHANGED <<jogScratchActive, jogReleaseTimer, jogLastTickTime, jogTickCount,
                   scratchMode, slip, pos, scratchOn, timers, ticks>>
    /\ JogFrame

(* slip mode is switched on from outside the script while the unit is idle *)
SlipOn ==
  \E d \in RampDecks :
    /\ phase = "ready" /\ RampInstant
    /\ ~jogScratchActive[d] /\ slip[d] = 0
    /\ slip' = [slip EXCEPT ![d] = 1]
    /\ calls' = <<>>
    /\ ev' = Ev("slip", "", "", d, 1)
    /\ UNCHANGED <<jogScratchActive, jogReleaseTimer, jogLastTickTime, jogTickCount,
                   scratchMode, play, pos, scratchOn, timers, ticks>>
    /\ JogFrame

(* the engine's play position is moved (seek) before the wheel is turned *)
Seek ==
  \E d \in RampDecks, p \in SeekTargets :
    /\ phase = "ready" /\ RampInstant
    /\ Rotations = 0 /\ pos[d] # p
    /\ pos' = [pos EXCEPT ![d] = p]
    /\ calls' = <<>>
    /\ ev' = Ev("seek", "", "", d, p)
    /\ UNCHANGED <<jogScratchActive, jogReleaseTimer, jogLastTickTime, jogTickCount,
                   scratchMode, play, slip, scratchOn, timers, ticks>>
    /\ JogFrame

(* the clock moves to the next instant of the wheel or the next timer, *)
(* whichever is first; it never passes a timer that is due             *)
RampAdvance ==
  LET next == {Epoch + i : i \in RampInstants} \cup {t.due : t \in timers}
      later == {x \in next : x > now}
  IN /\ \A t \in timers : t.due > now
     /\ later # {}
     /\ now' = CHOOSE x \in later : \A y \in later : x <= y
     /\ LedCommit(Cur)
     /\ ev' = Ev("clock", "", "", 0, 0)
     /\ UNCHANGED <<phase, shiftHeld, shiftLock, input, pressedBy, notified, timers>>
     /\ UNCHANGED jogVars
     /\ UNCHANGED <<blinks, eng, longPressTimer>>

NextRamp ==
  \/ InitOk
  \/ FireSettle
  \/ RampTouch
  \/ RampWheel
  \/ RampPlay
  \/ SlipOn
  \/ Seek
  \/ FireJogRelease
  \/ RampAdvance

SpecRamp == InitCtl /\ [][NextRamp]_vars

----------------------------------------------------------------------------
IsJogEvent(e, d) == e.op \in {"jogTouch", "jogWheel"} /\ e.deck = d

(* positions in a call log of the calls of one function for one deck *)
CallsOf(log, fn, d) == {i \in DOMAIN log : log[i][1] = fn /\ log[i][2] = d}

SlipSets(log, d) == {i \in DOMAIN log : log[i] = <<"setValue", d, "slip_enabled", 1>>}

(* C11: a wheel event that takes a unit from IDLE to SCRATCHING calls     *)
(* scratchEnable exactly once, with the fixed parameters, and sets        *)
(* slip_enabled to 1 exactly when the engine did not report it set; a     *)
(* wheel event for a unit that is already SCRATCHING, or that leaves the  *)
(* unit IDLE, calls scratchEnable not at all.                             *)
C11_EnableOnceOnEntry ==
  [][\A d \in Decks :
       IsJogEvent(ev', d) =>
         /\ (~jogScratchActive[d] /\ jogScratchActive'[d]) =>
              /\ Cardinality(CallsOf(calls', "scratchEnable", d)) = 1
              /\ \A i \in CallsOf(calls', "scratchEnable", d) :
                   calls'[i] = <<"scratchEnable", d, "", jogResolution>>
              /\ scratchOn'[d] /\ slip'[d] = 1
              /\ (SlipSets(calls', d) # {}) <=> (slip[d] = 0)
         /\ (jogScratchActive[d] \/ ~jogScratchActive'[d]) =>
              /\ CallsOf(calls', "scratchEnable", d) = {}
              /\ SlipSets(calls', d) = {}]_vars

(* the unit entered SCRATCHING while slip was already set: scratchEnable *)
(* and scratchTick only                                                  *)
C11_Witness ==
  /\ IsJogEvent(ev, 1) /\ jogScratchActive[1]
  /\ Len(calls) = 2 /\ calls[1] = <<"scratchEnable", 1, "", jogResolution>>
  /\ calls[2][1] = "scratchTick"

(* C12: a wheel event with a non-zero delta for a unit that is SCRATCHING *)
(* calls scratchTick with delta x scale factor and leaves the release     *)
(* timer armed 50 ms ahead, whether or not the deck is still playing.     *)
C12_ScratchingForwardsTick ==
  [][\A d \in Decks :
       (IsJogEvent(ev', d) /\ jogScratchActive[d] /\ Movement(ev'.num) # 0) =>
         /\ \E i \in CallsOf(calls', "scratchTick", d) :
              calls'[i][4] = Movement(ev'.num) * SpeedFactor(jogTickCount'[d])
         /\ \E t \in JogTimers(timers', d) : t.due = now + JOG_RELEASE_MS]_vars

(* C13: a wheel event (jogTouch or jogWheel) with a non-zero delta for a  *)
(* unit that is IDLE on a deck that is not playing makes one engine call, *)
(* setting playposition, leaves the unit IDLE with slip and the release   *)
(* timers as they were, and does not set the "jog" control.               *)
C13_IdleStoppedScrubs ==
  [][\A d \in Decks :
       (IsJogEvent(ev', d) /\ ~jogScratchActive[d] /\ play[d] = 0
        /\ Movement(ev'.num) # 0) =>
         /\ calls' = <<<<"setValue", d, "playposition", pos'[d]>>>>
         /\ ~jogScratchActive'[d] /\ ~scratchOn'[d]
         /\ UNCHANGED <<slip, timers, jogReleaseTimer>>]_vars

(* C14: jogWheel with a non-zero delta for a unit that is not scratching  *)
(* makes one engine call, setting "jog" to delta x jogPitchScale, and     *)
(* leaves the scratch-active flag, the timer handle and the timers, the   *)
(* tick counter, the last-tick time and the slip flag unchanged.          *)
C14_NudgeFrame ==
  [][\A d \in Decks :
       (ev'.op = "jogWheel" /\ ev'.deck = d /\ ~jogScratchActive[d]
        /\ Movement(ev'.num) # 0) =>
         /\ calls' = <<<<"setValue", d, "jog", Movement(ev'.num) * jogPitchScale>>>>
         /\ UNCHANGED <<jogScratchActive, jogReleaseTimer, timers, jogTickCount,
                        jogLastTickTime, slip, scratchOn, scratchMode, pos>>]_vars

(* a nudge of a playing deck after the unit had counted a tick *)
C14_Witness ==
  \E d \in Decks :
    /\ ev.op = "jogWheel" /\ ev.deck = d /\ play[d] = 1
    /\ ~jogScratchActive[d] /\ jogTickCount[d] > 0
    /\ calls = <<<<"setValue", d, "jog", Movement(ev.num) * jogPitchScale>>>>

(* C15: a wheel event, jogTouch or jogWheel, whose raw value is the       *)
(* center 0x40 makes no engine call and leaves the tick counter, the      *)
(* last-tick time, the scratch flag, the timer handle, the timers and     *)
(* the engine's slip, scratch and position state unchanged.               *)
C15_ZeroDeltaNoop ==
  [][\A d \in Decks :
       (IsJogEvent(ev', d) /\ ev'.num = jogCenter) =>
         /\ calls' = <<>>
         /\ UNCHANGED <<jogTickCount, jogLastTickTime, jogScratchActive,
                        jogReleaseTimer, timers, slip, scratchOn, scratchMode,
                        pos, ticks>>]_vars

(* a center value sent through jogWheel while the unit is SCRATCHING *)
C15_Witness ==
  \E d \in Decks :
    /\ ev.op = "jogWheel" /\ ev.deck = d /\ ev.num = jogCenter
    /\ jogScratchActive[d] /\ jogReleaseTimer[d] # 0
    /\ calls = <<>>

----------------------------------------------------------------------------
(* The first rotation of a fresh unit, for every raw value of the encoder. *)

AllRaw == 0..127

DecodeDecks == {1}

Fresh(d) == jogTickCount[d] = 0 /\ jogLastTickTime[d] = 0

(* MC2000.jogTouch(channel, control, value, status, group) *)
DecodeTouch ==
  \E d \in DecodeDecks, value \in AllRaw :
    /\ phase = "ready" /\ Fresh(d)
    /\ JogTouchBody(d, value)
    /\ ev' = Ev("jogTouch", "", "", d, value)
    /\ UNCHANGED play
    /\ JogFrame

(* MC2000.jogWheel(channel, control, value, status, group) *)
DecodeWheel ==
  \E d \in DecodeDecks, value \in AllRaw :
    /\ phase = "ready" /\ Fresh(d)
    /\ IF ~IsZeroMove(value) /\ ~jogScratchActive[d]
       THEN JogNudge(d, value)
       ELSE JogTouchBody(d, value)
    /\ ev' = Ev("jogWheel", "", "", d, value)
    /\ UNCHANGED play
    /\ JogFrame

(* the deck is started or stopped before the wheel is turned *)
DecodePlay ==
  \E d \in DecodeDecks :
    /\ phase = "ready" /\ Fresh(d)
    /\ play' = [play EXCEPT ![d] = 1 - @]
    /\ calls' = <<>>
    /\ ev' = Ev("play", "", "", d, 1 - play[d])
    /\ UNCHANGED <<jogScratchActive, jogReleaseTimer, jogLastTickTime, jogTickCount,
                   scratchMode, slip, pos, scratchOn, timers, ticks>>
    /\ JogFrame

NextDecode ==
  \/ InitOk
  \/ FireSettle
  \/ DecodeTouch
  \/ DecodeWheel
  \/ DecodePlay
  \/ FireJogRelease
  \/ Advance

SpecDecode == InitCtl /\ [][NextDecode]_vars

(* the delta a raw value stands for: ((v - center + 64) mod 128) - 64 *)
SpecDelta(v) == ((v - jogCenter + 64) % 128) - 64

(* what the last wheel event handed to the engine, for a delta of m: *)
(* nothing for zero, else the nudge, the scratch tick or the scrub   *)
HandedOver(d, m) ==
  IF m = 0 THEN calls = <<>>
  ELSE \/ calls = <<<<"setValue", d, "jog", m * jogPitchScale>>>>
       \/ /\ calls # <<>>
          /\ calls[Len(calls)] = <<"scratchTick", d, "", m * SpeedFactor(1)>>
       \/ calls = <<<<"setValue", d, "playposition", Clamp(m * 100)>>>>

(* C16: for every raw value v in 0..127 the delta jogTouch and jogWheel   *)
(* decode is ((v - 64 + 64) mod 128) - 64, and it is the delta the        *)
(* handler hands to the engine.                                           *)
C16_DecodeFormula ==
  \A d \in DecodeDecks :
    IsJogEvent(ev, d) =>
      /\ Movement(ev.num) = SpecDelta(ev.num)
      /\ HandedOver(d, SpecDelta(ev.num))

(* jogTouch decoded the raw value 127 as +63 for the scratch tick *)
C16_Witness ==
  /\ ev.op = "jogTouch" /\ ev.deck = 1 /\ ev.num = 127
  /\ calls # <<>>
  /\ calls[Len(calls)] = <<"scratchTick", 1, "", 63 * SpeedFactor(1)>>

(* C17 as stated: the decoded delta is greater than -64 and at most 64 *)
C17_DeltaHalfOpen ==
  \A d \in DecodeDecks :
    IsJogEvent(ev, d) => Movement(ev.num) > -64 /\ Movement(ev.num) <= 64

(* C17: for every raw value v in 0..127 the decoded delta lies in the     *)
(* closed range -64..63: it is -64 for v = 0 and never 64.                *)
C17_DeltaRange ==
  \A d \in DecodeDecks :
    IsJogEvent(ev, d) =>
      /\ Movement(ev.num) >= -64 /\ Movement(ev.num) <= 63
      /\ (ev.num = 0 => Movement(ev.num) = -64)

(* the raw value 0 reached the engine as a nudge of -64 *)
C17_Witness ==
  /\ ev.op = "jogWheel" /\ ev.deck = 1 /\ ev.num = 0
  /\ calls = <<<<"setValue", 1, "jog", (0 - 64) * jogPitchScale>>>>

----------------------------------------------------------------------------
(* positions in a call log of the writes of one engine control of a deck *)
ValueSets(log, key, d) ==
  {i \in DOMAIN log : log[i][1] = "setValue" /\ log[i][2] = d /\ log[i][3] = key}

(* playposition plus delta x scaling, before the clamp, for the tick count *)
(* the handler reached                                                     *)
Unclamped(p, m, count) == p + m * (IF count > 3 THEN SpeedFactor(count) ELSE 100)

(* C18: every playposition a wheel event writes to the engine lies in     *)
(* [0, 1]; it is exactly 0 when the position plus the scaled delta is     *)
(* below 0, exactly 1 when that sum is above 1, and the sum otherwise;    *)
(* the engine's position is then the value written.                       *)
C18_ScrubClamps ==
  [][\A d \in Decks :
       IsJogEvent(ev', d) =>
         \A i \in ValueSets(calls', "playposition", d) :
           LET w == calls'[i][4]
               sum == Unclamped(pos[d], Movement(ev'.num), jogTickCount'[d])
           IN /\ 0 <= w /\ w <= POS_ONE
              /\ sum < 0 => w = 0
              /\ sum > POS_ONE => w = POS_ONE
              /\ (0 <= sum /\ sum <= POS_ONE) => w = sum
              /\ pos'[d] = w]_vars

(* a scrub of +63 from 0.9999, then one of -64 from 1: the first was *)
(* clamped to 1, the second wrote an inner value                     *)
C18_Witness ==
  /\ ev.op = "jogTouch" /\ ev.deck = 1 /\ ev.num = 0
  /\ Len(ticks[1]) = 2
  /\ calls = <<<<"setValue", 1, "playposition", POS_ONE - 6400>>>>

(* C19: a rotation the unit counts resets the tick counter exactly when   *)
(* more than 150 ms passed since the unit's previous tick; the factor     *)
(* applied to a scratch tick is 1.00 for the first tick after a reset,    *)
(* does not fall below the factor of the tick before it and is at most    *)
(* jogMaxScaling.                                                         *)
C19_VelocityRamp ==
  [][\A d \in Decks :
       (IsJogEvent(ev', d) /\ Len(ticks'[d]) > Len(ticks[d])) =>
         /\ jogTickCount'[d] =
              (IF now - jogLastTickTime[d] > JOG_IDLE_MS THEN 0 ELSE jogTickCount[d]) + 1
         /\ \A i \in CallsOf(calls', "scratchTick", d) :
              \E F \in 100..jogMaxScaling :
                /\ calls'[i][4] = Movement(ev'.num) * F
                /\ jogTickCount'[d] = 1 => F = 100
                /\ jogTickCount'[d] > 1 => F >= SpeedFactor(jogTickCount[d])]_vars

----------------------------------------------------------------------------
(* the byte resetDefaults() leaves on a LED: ON for vinylmode, else OFF *)
DefaultByte(name) == IF LedCode(name) = LedCode("vinylmode") THEN LED_ON ELSE LED_OFF

(* C20: when shutdown() has returned every LED of every deck it belongs   *)
(* to shows its default byte and no timer is pending.                     *)
C20_ShutdownCancelsTimers ==
  ev.op = "shutdown" =>
    /\ \A name \in LedNames : \A i \in DOMAIN LedDecks(name) :
         device[<<LedDecks(name)[i], LedCode(name)>>] = DefaultByte(name)
    /\ timers = {}

(* C21: a timer callback that runs after shutdown writes nothing to the   *)
(* device and makes no engine call.                                       *)
C21_NoTimerEffectAfterShutdown ==
  [][(phase = "down" /\ ev'.op \in {"settleTimer", "jogReleaseTimer"}) =>
       sent' = <<>> /\ calls' = <<>>]_vars

----------------------------------------------------------------------------
(* LedManager.blink and the start of the controller.  A repeating timer   *)
(* fires every period until it is stopped.                                *)

BLINK_DEFAULT_PERIOD == 500
BLINK_DEFAULT_CYCLES == 6
FAIL_BLINK_PERIOD == 500
FAIL_BLINK_CYCLES == 10
FAIL_OFF_DELAY == 5100

(* at most this many blink() closures run at a time *)
MaxBlinks == 1

(* x || dflt for a numeric argument; 0 also stands for an omitted one *)
OrDefault(x, dflt) == IF x = 0 THEN dflt ELSE x

(* a blink that stops its timer one flip early *)
BlinkDoneEarly(fired, cycles) == fired + 1 >= cycles

(* if (fired >= cycles) engine.stopTimer(timerId), fired already counted *)
BlinkDone(fired, cycles) == fired >= cycles

(* LedManager.blink(name, period, cycles, opts): the closure and its timer *)
StartBlink(ts, bs, name, period, cycles, deck) ==
  [timers |-> BeginTimer(ts, "blink", deck, OrDefault(period, BLINK_DEFAULT_PERIOD)),
   blinks |-> bs \cup {[id |-> NewTimerId(ts), name |-> name, on |-> TRUE, fired |-> 0,
                        cycles |-> OrDefault(cycles, BLINK_DEFAULT_CYCLES),
                        period |-> OrDefault(period, BLINK_DEFAULT_PERIOD),
                        deck |-> deck]}]

(* the callback of a blink timer: set(name, on ? 'on' : 'off', opts), *)
(* flip, count, and stop the timer after the last flip                *)
FireBlink ==
  \E t \in timers :
    /\ t.kind = "blink" /\ Due(t)
    /\ LET b == CHOOSE b \in blinks : b.id = t.id
           done == BlinkDone(b.fired + 1, b.cycles)
       IN /\ LedCommit(Set(Cur, b.name, IF b.on THEN "on" ELSE "off", b.deck))
          /\ timers' = IF done THEN timers \ {t}
                       ELSE (timers \ {t}) \cup {[t EXCEPT !.due = @ + b.period]}
          /\ blinks' = IF done THEN blinks \ {b}
                       ELSE (blinks \ {b}) \cup {[b EXCEPT !.on = ~@, !.fired = @ + 1]}
          /\ ev' = Ev("blinkTimer", b.name, IF b.on THEN "on" ELSE "off", t.id, b.fired + 1)
    /\ UNCHANGED <<phase, shiftHeld, shiftLock, input, pressedBy, notified, now>>
    /\ UNCHANGED <<jogVars, eng, longPressTimer>>

(* MC2000.init(id) with lodash or components missing *)
InitFail ==
  /\ phase = "loaded"
  /\ phase' = "failed"
  /\ LET b == StartBlink(timers, blinks, "vinylmode", FAIL_BLINK_PERIOD, FAIL_BLINK_CYCLES, 0)
     IN /\ blinks' = b.blinks
        /\ timers' = BeginTimer(b.timers, "failOff", 0, FAIL_OFF_DELAY)
  /\ LedCommit(Cur)
  /\ ev' = Ev("initFail", "", "", 0, 0)
  /\ UNCHANGED <<shiftHeld, shiftLock, input, pressedBy, notified, now>>
  /\ UNCHANGED <<jogVars, eng, longPressTimer>>

(* the one-shot timer of the failed init: LedManager.set('vinylmode', 'off') *)
FireFailOff ==
  \E t \in timers :
    /\ t.kind = "failOff" /\ Due(t)
    /\ timers' = timers \ {t}
    /\ LedCommit(Set(Cur, "vinylmode", "off", 0))
    /\ ev' = Ev("failOffTimer", "", "", 0, 0)
    /\ UNCHANGED <<phase, shiftHeld, shiftLock, input, pressedBy, notified, now, blinks, eng, longPressTimer>>
    /\ UNCHANGED jogVars

BlinkNames == {"keylock", "nosuch"}
BlinkPeriods == {0, 200}
BlinkCycles == {0, 1, 3}

(* MC2000.LedManager.blink(name, period, cycles), requested at the first *)
(* instant                                                               *)
BlinkCall ==
  \E name \in BlinkNames, period \in BlinkPeriods, cycles \in BlinkCycles :
    /\ now = Epoch
    /\ Cardinality(blinks) < MaxBlinks
    /\ LET b == StartBlink(timers, blinks, name, period, cycles, 0)
       IN blinks' = b.blinks /\ timers' = b.timers
    /\ LedCommit(Cur)
    /\ ev' = Ev("blink", name, "", period, cycles)
    /\ UNCHANGED <<phase, shiftHeld, shiftLock, input, pressedBy, notified, now>>
    /\ UNCHANGED <<jogVars, eng, longPressTimer>>

(* the group argument of an input handler: the two decks, and 3 for a *)
(* group that is no deck, such as "[Master]"                          *)
Groups == {1, 2, 3}
WrapperCtls == {"play", "sync"}

(* MC2000.decks[group].comp: MC2000.decks is assigned by buildComponents *)
(* and holds the two decks only; reading a property of undefined throws  *)
WrapperThrows(built, group) == ~built \/ group \notin Decks

(* playButton and syncButton: syncButton re-applies the shift state to *)
(* its deck, then each dispatches to MC2000.decks[group].comp.input;    *)
(* the buttons are pressed at the first instant                         *)
WrapperCall ==
  \E c \in WrapperCtls, group \in Groups, value \in {127} :
    /\ now = Epoch
    /\ IF WrapperThrows(Built, group)
       THEN /\ input' = input
            /\ ev' = Ev("wrapper", c, "TypeError", group, value)
       ELSE /\ input' = IF c = "sync"
                        THEN ApplyShiftState(input, group, isShiftActive(shiftHeld, shiftLock))
                        ELSE input
            /\ ev' = Ev("wrapper", c, "input", group, value)
    /\ LedCommit(Cur)
    /\ UNCHANGED <<phase, shiftHeld, shiftLock, pressedBy, notified, timers, now>>
    /\ UNCHANGED jogVars
    /\ UNCHANGED <<blinks, eng, longPressTimer>>

NextBoot ==
  \/ InitOk
  \/ InitFail
  \/ FireSettle
  \/ FireBlink
  \/ FireFailOff
  \/ BlinkCall
  \/ WrapperCall
  \/ Shutdown
  \/ Advance

SpecBoot == InitCtl /\ [][NextBoot]_vars

----------------------------------------------------------------------------
(* the failure blink of the aborted init is still running *)
FailBlinking == \E b \in blinks : b.name = "vinylmode"

----------------------------------------------------------------------------
(* C23: no input handler throws: invoked before init, after an aborted   *)
(* init, after shutdown or with a group that is no deck, a deck-button   *)
(* wrapper completes or does nothing.                                    *)
C23_NoHandlerThrows ==
  ev.op = "wrapper" => ev.arg # "TypeError"

----------------------------------------------------------------------------
(* Hotcue pads and sampler buttons.  A call of a library component's     *)
(* input is logged as <<"input", deck or sampler, component, value>>.     *)

(* the notes of MC2000.mapHotcue's table and of MC2000.samplerMidiMap *)
HotcueNotes == {23, 24, 25, 32}
SamplerNotes == {33, 34, 35, 36, 49, 50, 51, 52}

(* a mapHotcue that falls back to the first slot *)
mapHotcueFirstSlot(midino) ==
  IF midino = 23 THEN 1 ELSE IF midino = 24 THEN 2
  ELSE IF midino = 25 THEN 3 ELSE IF midino = 32 THEN 4 ELSE 1

(* MC2000.mapHotcue(midino): table[midino] || -1 *)
mapHotcue(midino) ==
  IF midino = 23 THEN 1 ELSE IF midino = 24 THEN 2
  ELSE IF midino = 25 THEN 3 ELSE IF midino = 32 THEN 4 ELSE -1

(* MC2000.samplerMidiMap[control]; 0 stands for undefined *)
samplerMidiMap(control) ==
  IF control \in 33..36 THEN control - 32
  ELSE IF control \in 49..52 THEN control - 44
  ELSE 0

HotcueNames == <<"hotcue1", "hotcue2", "hotcue3", "hotcue4">>
HotcueClear == <<"hotcue_1_clear", "hotcue_2_clear", "hotcue_3_clear", "hotcue_4_clear">>

(* the notes the pads send here: two hotcue notes, two sampler notes, *)
(* and two notes that are in neither table                            *)
PadNotes == {23, 32, 33, 52, 26, 0}

(* Deck.hotcueInput(control, value): the slot's input, normal or shifted; *)
(* hasCue says whether hotcue_N_position differs from -1                  *)
HotcueInput(d, control, value, hasCue) ==
  LET n == mapHotcue(control)
  IN IF n < 1 \/ n > 4 THEN <<>>
     ELSE IF input[<<d, HotcueNames[n]>>] = "normal"
     THEN <<<<"input", d, HotcueNames[n], value>>>>
     ELSE IF isButtonOn(value) /\ hasCue
     THEN <<<<"setValue", d, HotcueClear[n], 1>>>>
     ELSE <<>>

(* what no pad handler changes *)
PadFrame ==
  /\ LedCommit(Cur)
  /\ UNCHANGED <<phase, shiftHeld, shiftLock, input, pressedBy, notified, timers, now>>
  /\ UNCHANGED <<jogScratchActive, jogReleaseTimer, jogLastTickTime, jogTickCount,
                 scratchMode, play, slip, pos, scratchOn, ticks, blinks, eng, longPressTimer>>

(* MC2000.hotcuePad(channel, control, value, status, group) *)
HotcuePad ==
  \E group \in Groups, control \in PadNotes, value \in {127, 0}, hasCue \in BOOLEAN :
    /\ IF ~Built
       THEN /\ calls' = <<>>
            /\ ev' = Ev("hotcuePad", "", "TypeError", group, control)
       ELSE /\ calls' = IF group \in Decks
                        THEN HotcueInput(group, control, value, hasCue) ELSE <<>>
            /\ ev' = Ev("hotcuePad", "", "", group, control)
    /\ PadFrame

(* MC2000.samplerPlayButtonGeneric(channel, control, value, status); *)
(* loaded is the sampler's track_loaded                               *)
SamplerPlay ==
  \E control \in PadNotes, value \in {127, 0}, loaded \in {0, 1} :
    LET samplerNum == samplerMidiMap(control)
    IN /\ IF samplerNum = 0 \/ ~isButtonOn(value)
          THEN /\ calls' = <<>>
               /\ ev' = Ev("samplerPlay", "", "", 0, control)
          ELSE IF isShiftActive(shiftHeld, shiftLock)
          THEN /\ calls' = IF loaded = 1
                           THEN <<<<"setValue", samplerNum, "eject", 1>>>> ELSE <<>>
               /\ ev' = Ev("samplerPlay", "", "", 0, control)
          ELSE IF loaded = 0
          THEN /\ calls' = <<<<"setValue", samplerNum, "LoadSelectedTrack", 1>>>>
               /\ ev' = Ev("samplerPlay", "", "", 0, control)
          ELSE IF ~Built
          THEN /\ calls' = <<>>
               /\ ev' = Ev("samplerPlay", "", "TypeError", 0, control)
          ELSE /\ calls' = <<<<"input", samplerNum, "playButton", value>>>>
               /\ ev' = Ev("samplerPlay", "", "", 0, control)
       /\ PadFrame

NextPads ==
  \/ InitOk
  \/ InitFail
  \/ ToggleShift
  \/ PflButton
  \/ HotcuePad
  \/ SamplerPlay
  \/ Shutdown

SpecPads == InitCtl /\ [][NextPads]_vars

(* the last event is a pad note that is in neither table *)
UnknownPad(e) ==
  \/ e.op = "hotcuePad" /\ e.num \notin HotcueNotes
  \/ e.op = "samplerPlay" /\ e.num \notin SamplerNotes

(* C24: a hotcuePad event whose note is no hotcue slot, and a sampler    *)
(* button event whose note is no sampler, is ignored: no engine call is  *)
(* made, nothing is written to the device and no state of the controller *)
(* changes.                                                              *)
C24_UnknownCodeIgnored ==
  [][UnknownPad(ev') =>
       /\ calls' = <<>> /\ sent' = <<>>
       /\ UNCHANGED <<cache, device, phase, shiftHeld, shiftLock, input, pressedBy,
                      notified, timers, now, blinks, eng, longPressTimer>>
       /\ UNCHANGED <<jogScratchActive, jogReleaseTimer, jogLastTickTime, jogTickCount,
                      scratchMode, play, slip, pos, scratchOn, ticks>>]_vars

(* a pressed pad with note 26 reached hotcuePad of a built deck while *)
(* shift was held, and no call was made                               *)
C24_Witness ==
  /\ phase = "ready" /\ shiftHeld
  /\ ev.op = "hotcuePad" /\ ev.num = 26 /\ ev.deck = 1 /\ ev.arg = ""
  /\ calls = <<>>

----------------------------------------------------------------------------
(* LED Manager calls with names that are no LED *)

UnkNames == {"nosuch", "constructor", "cue1"}
UnkDecks == {1}
UnkStatuses == {"n0", "false", "off", "n2", "blink", "true", "n1", "on", "n3"}
UnkMaps ==
  << << <<"nosuch", "on">> >>,
     << <<"cue1", "on">>, <<"nosuch", "on">>, <<"cue2", "off">> >> >>

(* the calls are made at the first instant; what they leave alone *)
LedCallFrame ==
  /\ now = Epoch
  /\ UNCHANGED <<phase, shiftHeld, shiftLock, input, pressedBy, notified, timers, now>>
  /\ UNCHANGED jogVars
  /\ UNCHANGED <<blinks, eng, longPressTimer>>

(* MC2000.LedManager.set(name, status, opts) *)
NamedSet ==
  \E name \in UnkNames, status \in UnkStatuses, deck \in UnkDecks :
    /\ LedCommit(Set(Cur, name, status, deck))
    /\ ev' = Ev("set", name, status, deck, 0)
    /\ LedCallFrame

(* MC2000.LedManager.setRaw(name, statusByte, opts) *)
NamedSetRaw ==
  \E name \in UnkNames, statusByte \in {ALT_ON}, deck \in UnkDecks :
    /\ LedCommit(SetRaw(Cur, name, statusByte, deck))
    /\ ev' = Ev("setRaw", name, "", deck, statusByte)
    /\ LedCallFrame

(* MC2000.LedManager.reflect(name, value, opts) *)
NamedReflect ==
  \E name \in UnkNames, value \in {"n0", "n1"}, deck \in UnkDecks :
    /\ LedCommit(Reflect(Cur, name, value, deck))
    /\ ev' = Ev("reflect", name, value, deck, 0)
    /\ LedCallFrame

(* MC2000.LedManager.reflectAlt(name, value, opts) *)
NamedReflectAlt ==
  \E name \in UnkNames, value \in {"n0", "n1"}, deck \in UnkDecks :
    /\ LedCommit(ReflectAlt(Cur, name, value, deck))
    /\ ev' = Ev("reflectAlt", name, value, deck, 0)
    /\ LedCallFrame

(* MC2000.LedManager.bulk(map) *)
NamedBulk ==
  \E i \in DOMAIN UnkMaps :
    /\ LedCommit(Bulk(Cur, UnkMaps[i]))
    /\ ev' = Ev("bulk", "", "", 0, i)
    /\ LedCallFrame

(* MC2000.LedManager.blink("cue1", undefined, 2, opts), one at a time *)
NamedBlink ==
  \E deck \in UnkDecks :
    /\ now = Epoch
    /\ blinks = {}
    /\ LET b == StartBlink(timers, blinks, "cue1", 0, 2, deck)
       IN blinks' = b.blinks /\ timers' = b.timers
    /\ LedCommit(Cur)
    /\ ev' = Ev("blink", "cue1", "", deck, 2)
    /\ UNCHANGED <<phase, shiftHeld, shiftLock, input, pressedBy, notified, now>>
    /\ UNCHANGED <<jogVars, eng, longPressTimer>>

NextNames ==
  \/ NamedSet
  \/ NamedSetRaw
  \/ NamedReflect
  \/ NamedReflectAlt
  \/ NamedBulk
  \/ NamedBlink
  \/ FireBlink
  \/ Advance

SpecNames == InitCtl /\ [][NextNames]_vars

(* the entries of a bulk map whose name is a LED *)
KnownEntries(map) == SelectSeq(map, LAMBDA e : e[1] \in LedNames)

(* C25: a LED write that names no LED (through set, setRaw, reflect or   *)
(* reflectAlt) writes nothing to the device and leaves the cache as it   *)
(* was, and a bulk map writes what its entries that name a LED write.    *)
C25_UnknownLedNoop ==
  [][/\ (ev'.op \in {"set", "setRaw", "reflect", "reflectAlt"}
         /\ ev'.name \notin LedNames) => sent' = <<>> /\ cache' = cache
     /\ ev'.op = "bulk" =>
          /\ sent' = Bulk(Cur, KnownEntries(UnkMaps[ev'.num])).sent
          /\ cache' = Bulk(Cur, KnownEntries(UnkMaps[ev'.num])).cache]_vars

(* the status byte the three groups of status values stand for; 0 for a *)
(* value of no group                                                    *)
StatusByteOf(status) ==
  IF status \in {"false", "n0", "off"} THEN LED_OFF
  ELSE IF status \in {"n2", "blink"} THEN LED_BLINK
  ELSE IF status \in {"true", "n1", "on"} THEN LED_ON
  ELSE 0

(* C26: set asks for OFF 0x4B for false, 0 and 'off', for BLINK 0x4C for *)
(* 2 and 'blink' and for ON 0x4A for true, 1 and 'on', and every byte    *)
(* that set, bulk, reflect or a blink step writes is one of the three.   *)
C26_NormalizedBytes ==
  [][/\ (ev'.op = "set" /\ StatusByteOf(ev'.arg) # 0) =>
          \A i \in DOMAIN reqs' : reqs'[i][3] = StatusByteOf(ev'.arg)
     /\ ev'.op \in {"set", "bulk", "reflect", "blinkTimer"} =>
          \A i \in DOMAIN sent' : sent'[i][3] \in {LED_OFF, LED_ON, LED_BLINK}]_vars

(* set("cue1", 2, {deck: 1}) has written BLINK *)
C26_Witness ==
  /\ ev.op = "set" /\ ev.name = "cue1" /\ ev.arg = "n2" /\ ev.deck = 1
  /\ sent = <<<<1, LedCode("cue1"), LED_BLINK>>>>

----------------------------------------------------------------------------
(* the closure of the blink timer with handle id *)
BlinkOf(bs, id) == CHOOSE b \in bs : b.id = id

(* C27: blink(name, period, cycles) flips the LED once per period for     *)
(* exactly `cycles` flips, on first and then alternating, and stops its   *)
(* own timer with the last flip: the blink that starts is one of          *)
(* `cycles` flips, each step is the next flip of it and is due one period *)
(* after the one before, and after the last flip neither the closure nor  *)
(* its timer remains.                                                     *)
C27_ExactlyCyclesFlips ==
  [][/\ ev'.op = "blink" =>
          \E b \in blinks' \ blinks :
            b.cycles = ev'.num /\ b.on /\ b.fired = 0
     /\ ev'.op = "blinkTimer" =>
          LET b == BlinkOf(blinks, ev'.deck)
              last == ev'.num = b.cycles
          IN /\ ev'.num = b.fired + 1 /\ ev'.num <= b.cycles
             /\ ev'.arg = (IF ev'.num % 2 = 1 THEN "on" ELSE "off")
             /\ last <=> (\A c \in blinks' : c.id # b.id)
             /\ last <=> (\A t \in timers' : t.id # b.id)
             /\ ~last => \E t \in timers' : t.id = b.id /\ t.due = now + b.period]_vars

----------------------------------------------------------------------------
(* the (deck, code) pairs of the LEDs of names *)
PairsOf(names) ==
  UNION {{<<LedDecks(n)[i], LedCode(n)>> : i \in DOMAIN LedDecks(n)} : n \in names \cap LedNames}

SettlePending == \E t \in timers : t.kind = "settle"

(* C28: a successful init asks for ON on every LED of the table and arms  *)
(* the settle timer 1000 ms ahead; while that timer is pending and no     *)
(* shutdown has run the LEDs init lit stay lit; the timer's callback runs *)
(* no earlier than its due time and leaves every LED OFF except vinylmode *)
(* ON.                                                                    *)
C28_SelfTestThenDefaults ==
  [][/\ ev'.op = "init" =>
          /\ \A n \in LedNames : \A i \in DOMAIN LedDecks(n) :
               /\ \E j \in DOMAIN reqs' : reqs'[j] = <<LedDecks(n)[i], LedCode(n), LED_ON>>
               /\ n # "samplemode" => device'[<<LedDecks(n)[i], LedCode(n)>>] = LED_ON
          /\ \E t \in timers' : t.kind = "settle" /\ t.due = now + SETTLE_DELAY
     /\ (phase' = "ready" /\ SettlePending') =>
          \A p \in PairsOf(LedNames \ (BlinkNames \cup {"samplemode"})) : device'[p] = LED_ON
     /\ ev'.op = "settleTimer" =>
          /\ \E t \in timers : t.kind = "settle" /\ t.due <= now
          /\ \A n \in LedNames : \A i \in DOMAIN LedDecks(n) :
               device'[<<LedDecks(n)[i], LedCode(n)>>] = DefaultByte(n)]_vars

(* the settle timer fired 1000 ms after init and reset the lit LEDs *)
C28_Witness ==
  /\ phase = "ready" /\ ev.op = "settleTimer" /\ now = Epoch + SETTLE_DELAY
  /\ Len(sent) > 2
  /\ device[<<1, LedCode("vinylmode")>>] = LED_ON
  /\ device[<<1, LedCode("play")>>] = LED_OFF

----------------------------------------------------------------------------
(* every LED of the table has its default byte in the cache c *)
AllDefault(c) ==
  \A n \in LedNames : \A i \in DOMAIN LedDecks(n) :
    c[<<LedDecks(n)[i], LedCode(n)>>] = DefaultByte(n)

----------------------------------------------------------------------------
(* C30: touch gates scratch.  jogTouch receives the rotation of the      *)
(* touched platter, jogWheel the rotation of the wheel without touch.    *)
(* Engine scratch is enabled for a unit only by a jogTouch event of that *)
(* unit, and a jogWheel rotation only bends pitch: its one engine call   *)
(* sets 'jog', and it neither ticks nor enables scratch.                 *)
C30_TouchGatesScratch ==
  [][\A d \in Decks :
       /\ (scratchOn'[d] /\ ~scratchOn[d]) => (ev'.op = "jogTouch" /\ ev'.deck = d)
       /\ (ev'.op = "jogWheel" /\ ev'.deck = d /\ Movement(ev'.num) # 0) =>
            /\ calls' = <<<<"setValue", d, "jog", Movement(ev'.num) * jogPitchScale>>>>
            /\ scratchOn'[d] = scratchOn[d]]_vars

----------------------------------------------------------------------------
(* The sync button: Deck.sync.input and its long-press timer *)

(* this.sync.longPressThreshold, in milliseconds *)
LONG_PRESS_THRESHOLD == 1000

(* what sync.input leaves behind: the engine values, the timers, the      *)
(* longPressTimer fields and the engine calls made                        *)
SyncResult(e, ts, lp, cs) == [eng |-> e, timers |-> ts, longPressTimer |-> lp, calls |-> cs]

(* a release that sends beatsync and leaves the timer running *)
SyncReleasedKeepsTimer(d) ==
  IF longPressTimer[d] # 0
  THEN SyncResult(eng, timers, [longPressTimer EXCEPT ![d] = 0],
                  <<<<"setValue", d, "beatsync", 1>>>>)
  ELSE SyncResult(eng, timers, longPressTimer, <<>>)

(* sync.input with the button on: script.toggleControl under shift, else  *)
(* sync lock off when it is on, else the long-press timer is started      *)
SyncPressed(d, active) ==
  LET k == <<d, "sync_enabled">> IN
  IF active
  THEN SyncResult([eng EXCEPT ![k] = 1 - eng[k]], timers, longPressTimer,
                  <<<<"setValue", d, "sync_enabled", 1 - eng[k]>>>>)
  ELSE IF eng[k] # 0
  THEN SyncResult([eng EXCEPT ![k] = 0], timers, longPressTimer,
                  <<<<"setValue", d, "sync_enabled", 0>>>>)
  ELSE SyncResult(eng, BeginTimer(timers, "longPress", d, LONG_PRESS_THRESHOLD),
                  [longPressTimer EXCEPT ![d] = NewTimerId(timers)], <<>>)

(* sync.input with the button off: a pending long press becomes a beatsync *)
SyncReleased(d) ==
  IF longPressTimer[d] # 0
  THEN SyncResult(eng, StopTimer(timers, longPressTimer[d]),
                  [longPressTimer EXCEPT ![d] = 0],
                  <<<<"setValue", d, "beatsync", 1>>>>)
  ELSE SyncResult(eng, timers, longPressTimer, <<>>)

SyncCommit(r) ==
  /\ eng' = r.eng
  /\ timers' = r.timers
  /\ longPressTimer' = r.longPressTimer
  /\ calls' = r.calls

SyncFrame ==
  /\ LedCommit(Cur)
  /\ UNCHANGED <<phase, shiftHeld, shiftLock, notified, now>>
  /\ UNCHANGED <<jogScratchActive, jogReleaseTimer, jogLastTickTime, jogTickCount,
                 scratchMode, play, slip, pos, scratchOn, ticks, blinks>>

(* the instants, in ms after the script is loaded, at which the sync       *)
(* buttons are worked                                                      *)
SyncInstants == {0, 400, 1000, 1500}

(* MC2000.syncButton(channel, control, value, status, group), button on *)
SyncPress ==
  \E d \in Decks, value \in {127} :
    /\ phase = "ready"
    /\ now < Epoch + 1500
    /\ pressedBy[<<d, "sync">>] = "none"
    /\ input' = ApplyShiftState(input, d, isShiftActive(shiftHeld, shiftLock))
    /\ pressedBy' = [pressedBy EXCEPT ![<<d, "sync">>] = "down"]
    /\ SyncCommit(SyncPressed(d, isShiftActive(shiftHeld, shiftLock)))
    /\ ev' = Ev("syncButton", "sync", BoolTok(isShiftActive(shiftHeld, shiftLock)), d, value)
    /\ SyncFrame

(* the long-press timers one deck may have pending at once, and the deck  *)
(* whose button sends its note-on twice                                  *)
MaxLongPress == 2
RepressDecks == {1}

(* the button on again with no release between: a second note-on message *)
SyncRepress ==
  \E d \in RepressDecks, value \in {127} :
    /\ phase = "ready"
    /\ now = Epoch
    /\ pressedBy[<<d, "sync">>] = "down"
    /\ Cardinality({t \in timers : t.kind = "longPress" /\ t.deck = d}) < MaxLongPress
    /\ input' = ApplyShiftState(input, d, isShiftActive(shiftHeld, shiftLock))
    /\ SyncCommit(SyncPressed(d, isShiftActive(shiftHeld, shiftLock)))
    /\ ev' = Ev("syncButton", "sync", BoolTok(isShiftActive(shiftHeld, shiftLock)), d, value)
    /\ UNCHANGED pressedBy
    /\ SyncFrame

(* MC2000.syncButton(channel, control, value, status, group), button off *)
SyncRelease ==
  \E d \in Decks, value \in {0} :
    /\ phase = "ready"
    /\ pressedBy[<<d, "sync">>] = "down"
    /\ input' = ApplyShiftState(input, d, isShiftActive(shiftHeld, shiftLock))
    /\ pressedBy' = [pressedBy EXCEPT ![<<d, "sync">>] = "none"]
    /\ SyncCommit(SyncReleased(d))
    /\ ev' = Ev("syncButton", "sync", "", d, value)
    /\ SyncFrame

(* the one-shot long-press timer of deck t.deck fires *)
FireLongPress ==
  \E t \in timers :
    /\ t.kind = "longPress" /\ Due(t)
    /\ timers' = timers \ {t}
    /\ eng' = [eng EXCEPT ![<<t.deck, "sync_enabled">>] = 1]
    /\ longPressTimer' = [longPressTimer EXCEPT ![t.deck] = 0]
    /\ calls' = <<<<"setValue", t.deck, "sync_enabled", 1>>>>
    /\ ev' = Ev("longPressTimer", "sync", "", t.deck, t.id)
    /\ UNCHANGED <<input, pressedBy>>
    /\ SyncFrame

(* the shift button, while the sync buttons are worked *)
SyncShift ==
  /\ now < Epoch + 1500
  /\ ToggleShift

(* the clock moves to the next instant or the next timer, whichever is    *)
(* first; it never passes a timer that is due                              *)
SyncAdvance ==
  LET next == {Epoch + i : i \in SyncInstants} \cup {t.due : t \in timers}
      later == {x \in next : x > now}
  IN /\ \A t \in timers : t.due > now
     /\ later # {}
     /\ now' = CHOOSE x \in later : \A y \in later : x <= y
     /\ LedCommit(Cur)
     /\ ev' = Ev("clock", "", "", 0, 0)
     /\ UNCHANGED <<phase, shiftHeld, shiftLock, input, pressedBy, notified, timers>>
     /\ UNCHANGED jogVars
     /\ UNCHANGED <<blinks, eng, longPressTimer>>

(* each sync button goes down and up in turn *)
NextSync ==
  \/ InitOk
  \/ FireSettle
  \/ SyncShift
  \/ SyncPress
  \/ SyncRelease
  \/ FireLongPress
  \/ SyncAdvance

SpecSync == InitCtl /\ [][NextSync]_vars

(* a sync button may also send its note-on twice *)
NextSyncRepeat ==
  \/ InitOk
  \/ FireSettle
  \/ SyncPress
  \/ SyncRepress
  \/ SyncRelease
  \/ FireLongPress
  \/ SyncAdvance

SpecSyncRepeat == InitCtl /\ [][NextSyncRepeat]_vars

(* the long-press timers of deck d that are pending *)
LongPressIn(ts, d) == {t \in ts : t.kind = "longPress" /\ t.deck = d}

LongPressPending(d) == LongPressIn(timers, d)

HasCall(cs, d, key) == \E i \in DOMAIN cs : cs[i][2] = d /\ cs[i][3] = key

(* C31: a sync gesture ends in one outcome.  A release that finds the     *)
(* long press pending sends exactly one beatsync, leaves sync lock as it  *)
(* was and leaves no long-press timer of the deck behind, so that lock    *)
(* cannot follow; the timer that fires at the threshold enables sync lock *)
(* without a beatsync and clears the handle, so that the later release    *)
(* sends nothing; a press sends no beatsync; and sync lock is            *)
(* never on while a long press of the deck is pending.                    *)
C31_SyncGestureExclusive ==
  [][\A d \in Decks :
       LET k == <<d, "sync_enabled">> IN
       /\ (ev'.op = "syncButton" /\ ev'.deck = d /\ ev'.num = 0 /\ longPressTimer[d] # 0) =>
            /\ calls' = <<<<"setValue", d, "beatsync", 1>>>>
            /\ eng' = eng /\ eng[k] = 0
            /\ LongPressIn(timers', d) = {}
            /\ longPressTimer'[d] = 0
       /\ (ev'.op = "syncButton" /\ ev'.deck = d /\ ev'.num = 0 /\ longPressTimer[d] = 0) =>
            /\ calls' = <<>> /\ eng' = eng /\ timers' = timers
       /\ (ev'.op = "longPressTimer" /\ ev'.deck = d) =>
            /\ eng'[k] = 1
            /\ ~HasCall(calls', d, "beatsync")
            /\ longPressTimer'[d] = 0
            /\ LongPressIn(timers', d) = {}
            /\ now >= Epoch + LONG_PRESS_THRESHOLD
       /\ (ev'.op = "syncButton" /\ ev'.deck = d /\ ev'.num # 0) =>
            ~HasCall(calls', d, "beatsync")
       /\ (eng[k] = 0 /\ eng'[k] = 1) =>
            \/ ev'.op = "longPressTimer" /\ ev'.deck = d
            \/ ev'.op = "syncButton" /\ ev'.deck = d /\ ev'.arg = "true"
       /\ (longPressTimer'[d] # 0) =>
            /\ eng'[k] = 0
            /\ pressedBy'[<<d, "sync">>] = "down"
            /\ \A t \in LongPressIn(timers', d) : t.id = longPressTimer'[d]
            /\ Cardinality(LongPressIn(timers', d)) = 1]_vars

(* a short press has just become a beatsync on deck 1, and elsewhere a    *)
(* held press has become sync lock with the button still down             *)
C31_Witness ==
  /\ ev.op = "syncButton" /\ ev.deck = 1 /\ ev.num = 0
  /\ calls = <<<<"setValue", 1, "beatsync", 1>>>>
  /\ eng[<<1, "sync_enabled">>] = 0
  /\ eng[<<2, "sync_enabled">>] = 1 /\ pressedBy[<<2, "sync">>] = "down"
  /\ ~shiftHeld /\ ~shiftLock
  /\ now > Epoch + LONG_PRESS_THRESHOLD

(* C34: each sync button has at most one long-press timer pending, and    *)
(* its longPressTimer field is non-zero exactly when one is pending and   *)
(* then holds that timer's handle, whatever presses and releases arrive   *)
C34_OneLongPressTimer ==
  \A d \in Decks :
    /\ Cardinality(LongPressPending(d)) <= 1
    /\ (longPressTimer[d] # 0) <=> (LongPressPending(d) # {})
    /\ \A t \in LongPressPending(d) : t.id = longPressTimer[d]

----------------------------------------------------------------------------
(* The lock indicator over the whole life of the script *)

(* C32: once init has run and its LED self-test window is over, the byte  *)
(* last sent to the shiftlock indicator of each deck is ON exactly when   *)
(* shiftLock is true, also when the lock chord came before the settle     *)
(* timer.                                                                  *)
C32_LockLedTracksLock ==
  (phase = "ready" /\ ~SettlePending) =>
    \A d \in Decks : device[<<d, LedCode("shiftlock")>>] = LockByte

----------------------------------------------------------------------------
(* The jog state of a deck between events *)

(* C33: between events, for each deck, the scratch-active flag is true    *)
(* exactly when the idle-release timer is pending (the handle is not      *)
(* null) and exactly when the engine's scratch mode is enabled, and the   *)
(* deck's scratchMode flag equals the scratch-active flag.                *)
C33_JogStateAgrees ==
  \A d \in Decks :
    /\ jogScratchActive[d] <=> (jogReleaseTimer[d] # 0)
    /\ jogScratchActive[d] <=> (JogTimers(timers, d) # {})
    /\ jogScratchActive[d] <=> scratchOn[d]
    /\ scratchMode[d] = jogScratchActive[d]

(* a deck is scratching with its timer pending while the other is idle *)
C33_Witness ==
  /\ jogScratchActive[1] /\ scratchOn[1] /\ scratchMode[1]
  /\ jogReleaseTimer[1] # 0 /\ JogTimers(timers, 1) # {}
  /\ ~jogScratchActive[2] /\ jogReleaseTimer[2] = 0 /\ ~scratchOn[2]
  /\ Len(ticks[2]) > 0

----------------------------------------------------------------------------
(* The momentary controls of the pitch-bend buttons *)

(* the decks whose pitch-bend buttons are worked *)
BendDecks == {1}

(* MC2000.pitchBendUp / pitchBendDown with the button on: comp.input *)
BendPress ==
  \E k \in BendButtons, value \in {127} :
    /\ phase = "ready"
    /\ k[1] \in BendDecks
    /\ pressedBy[k] = "none"
    /\ Cardinality(Held) < MaxHeld
    /\ pressedBy' = [pressedBy EXCEPT ![k] = input[k]]
    /\ eng' = BendInput(eng, k, input[k], value)
    /\ LedCommit(Cur)
    /\ ev' = Ev("button", k[2], input[k], k[1], value)
    /\ UNCHANGED <<phase, shiftHeld, shiftLock, input, notified, timers, now>>
    /\ UNCHANGED jogVars
    /\ UNCHANGED <<blinks, longPressTimer>>

(* MC2000.pitchBendUp / pitchBendDown with the button off *)
BendRelease ==
  \E k \in BendButtons :
    /\ phase = "ready"
    /\ pressedBy[k] # "none"
    /\ pressedBy' = [pressedBy EXCEPT ![k] = "none"]
    /\ eng' = BendInput(eng, k, input[k], 0)
    /\ LedCommit(Cur)
    /\ ev' = [Ev("button", k[2], input[k], k[1], 0) EXCEPT !.aux = pressedBy[k]]
    /\ UNCHANGED <<phase, shiftHeld, shiftLock, input, notified, timers, now>>
    /\ UNCHANGED jogVars
    /\ UNCHANGED <<blinks, longPressTimer>>

NextBend ==
  \/ InitOk
  \/ FireSettle
  \/ Advance
  \/ ToggleShift
  \/ PflButton
  \/ BendPress
  \/ BendRelease

SpecBend == InitCtl /\ [][NextBend]_vars

(* C35: when a pitch-bend button has been released, the engine control    *)
(* its press set to 1 (rate_temp_up or rate_temp_down, fwd or back under  *)
(* shift) is back at 0, whatever happened to shift while it was held.     *)
C35_MomentaryReleased ==
  (IsRelease(ev) /\ ev.name \in BendCtls) =>
    eng[<<ev.deck, BendKey(ev.name, ev.aux)>>] = 0

----------------------------------------------------------------------------
(* The PFL button and the lock chord *)

MonitorCuePairs == {<<1, LedCode("monitorcue_l")>>, <<2, LedCode("monitorcue_r")>>}

(* C36: a PFL press while the modifier is physically held toggles         *)
(* shiftLock and does not reach the PFL control: the engine's pfl values  *)
(* and the bytes of the monitor-cue LEDs are as before.  Any other PFL    *)
(* message, also a press while shift is only locked, goes to the PFL      *)
(* toggle (a press inverts the deck's pfl, a release changes nothing)     *)
(* and leaves shiftLock as it was.                                        *)
C36_ChordOrPfl ==
  [][(ev'.op = "pflButton") =>
       IF isButtonOn(ev'.num) /\ shiftHeld
       THEN /\ shiftLock' = ~shiftLock
            /\ eng' = eng
            /\ \A p \in MonitorCuePairs : device'[p] = device[p] /\ cache'[p] = cache[p]
       ELSE /\ shiftLock' = shiftLock
            /\ \A p \in MonitorCuePairs : device'[p] = device[p] /\ cache'[p] = cache[p]
            /\ eng' = [eng EXCEPT ![<<ev'.deck, "pfl">>] =
                         IF isButtonOn(ev'.num) THEN 1 - @ ELSE @]]_vars

(* the PFL button was pressed with shift locked and the modifier up: the  *)
(* lock stays and PFL of deck 2 goes on                                   *)
C36_Witness ==
  /\ ev.op = "pflButton" /\ ev.arg = "input" /\ ev.num = 127 /\ ev.deck = 2
  /\ shiftLock /\ ~shiftHeld
  /\ eng[<<2, "pfl">>] = 1

----------------------------------------------------------------------------
(* MC2000.blinkShiftLock *)

LOCK_BLINK_DEFAULT_MS == 2000
LOCK_BLINK_INTERVAL == 500

(* the durationMs arguments tried; 0 stands for a call without one *)
LockBlinkDurations == {0, 300, 500, 1200, 1600}

(* durationMs = (typeof durationMs === 'number' && durationMs > 0) ?     *)
(* durationMs : 2000                                                      *)
LockBlinkDuration(durationMs) ==
  IF durationMs > 0 THEN durationMs ELSE LOCK_BLINK_DEFAULT_MS

(* Math.floor(durationMs / blinkInterval) *)
LockBlinkCycles(durationMs) == LockBlinkDuration(durationMs) \div LOCK_BLINK_INTERVAL

(* MC2000.blinkShiftLock(durationMs) *)
BlinkShiftLock ==
  \E durationMs \in LockBlinkDurations :
    /\ now = Epoch
    /\ Cardinality(blinks) < MaxBlinks
    /\ LET b == StartBlink(timers, blinks, "shiftlock", LOCK_BLINK_INTERVAL,
                           LockBlinkCycles(durationMs), 0)
       IN blinks' = b.blinks /\ timers' = b.timers
    /\ LedCommit(Cur)
    /\ ev' = Ev("blinkShiftLock", "shiftlock", "", 0, durationMs)
    /\ UNCHANGED <<phase, shiftHeld, shiftLock, input, pressedBy, notified, now>>
    /\ UNCHANGED <<jogVars, eng, longPressTimer>>

NextLockBlink ==
  \/ InitOk
  \/ FireSettle
  \/ BlinkShiftLock
  \/ FireBlink
  \/ Advance

SpecLockBlink == InitCtl /\ [][NextLockBlink]_vars

(* C37: blinkShiftLock(durationMs) with a positive durationMs starts a    *)
(* blink of floor(durationMs / 500) flips, 500 ms apart, so that the      *)
(* blinking is over no later than durationMs after the call.              *)
C37_BlinkWithinDuration ==
  [][(ev'.op = "blinkShiftLock" /\ ev'.num > 0) =>
       \E b \in blinks' \ blinks :
         /\ b.name = "shiftlock" /\ b.period = LOCK_BLINK_INTERVAL
         /\ b.cycles = ev'.num \div LOCK_BLINK_INTERVAL
         /\ b.cycles * b.period <= ev'.num]_vars

----------------------------------------------------------------------------
(* The keylock button: keylock toggle, and the pitch range under shift *)

(* var ranges = [0.06, 0.10, 0.24, 0.50], in hundredths *)
RATE_RANGES == <<6, 10, 24, 50>>

(* Array.prototype.indexOf: the 0-based index of the first element equal  *)
(* to x, -1 when there is none                                            *)
indexOf(seq, x) ==
  IF \E i \in DOMAIN seq : seq[i] = x
  THEN (CHOOSE i \in DOMAIN seq : seq[i] = x /\ \A j \in DOMAIN seq : seq[j] = x => i <= j) - 1
  ELSE -1

(* a step through the list that stops at its end *)
NextRangeNoWrap(currentRange) ==
  LET nextIndex == indexOf(RATE_RANGES, currentRange) + 1
  IN RATE_RANGES[(IF nextIndex >= Len(RATE_RANGES) THEN Len(RATE_RANGES) - 1 ELSE nextIndex) + 1]

(* ranges[(ranges.indexOf(currentRange) + 1) % ranges.length] *)
NextRange(currentRange) ==
  RATE_RANGES[((indexOf(RATE_RANGES, currentRange) + 1) % Len(RATE_RANGES)) + 1]

(* keylock.input bound to handler, for a message value *)
KeylockInput(e, d, handler, value) ==
  IF ~isButtonOn(value) THEN e
  ELSE IF handler = "shifted"
  THEN [e EXCEPT ![<<d, "rateRange">>] = NextRange(@)]
  ELSE [e EXCEPT ![<<d, "keylock">>] = 1 - @]

(* MC2000.keylockButton(channel, control, value, status, group) *)
KeylockButton ==
  \E d \in Decks, value \in {127, 0} :
    /\ phase = "ready"
    /\ eng' = KeylockInput(eng, d, input[<<d, "keylock">>], value)
    /\ LedCommit(Cur)
    /\ ev' = Ev("keylockButton", "keylock", input[<<d, "keylock">>], d, value)
    /\ UNCHANGED <<phase, shiftHeld, shiftLock, input, pressedBy, notified, timers, now>>
    /\ UNCHANGED jogVars
    /\ UNCHANGED <<blinks, longPressTimer>>

(* the pitch ranges the user sets in the engine itself, in hundredths *)
UserRanges == {8, 16, 50}

(* the engine's rateRange is changed from outside the script *)
RateRangeChange ==
  \E d \in Decks, r \in UserRanges :
    /\ phase = "ready"
    /\ eng' = [eng EXCEPT ![<<d, "rateRange">>] = r]
    /\ LedCommit(Cur)
    /\ ev' = Ev("rateRange", "", "", d, r)
    /\ UNCHANGED <<phase, shiftHeld, shiftLock, input, pressedBy, notified, timers, now>>
    /\ UNCHANGED jogVars
    /\ UNCHANGED <<blinks, longPressTimer>>

NextKeylock ==
  \/ InitOk
  \/ ToggleShift
  \/ KeylockButton
  \/ RateRangeChange

SpecKeylock == InitCtl /\ [][NextKeylock]_vars

(* C38: a keylock press under shift moves the deck's pitch range one step *)
(* along 6% -> 10% -> 24% -> 50% -> 6%, from a range outside the list     *)
(* (the 8% of init) to 6%, so that after the press the range is one of    *)
(* the four; it changes nothing else; and the release of the button under *)
(* shift changes nothing.                                                 *)
C38_PitchRangeCycle ==
  [][(ev'.op = "keylockButton" /\ ev'.arg = "shifted") =>
       LET k == <<ev'.deck, "rateRange">> IN
       IF isButtonOn(ev'.num)
       THEN /\ eng'[k] = (CASE eng[k] = 6 -> 10 [] eng[k] = 10 -> 24
                            [] eng[k] = 24 -> 50 [] OTHER -> 6)
            /\ eng'[k] \in {6, 10, 24, 50}
            /\ \A j \in DOMAIN eng : j # k => eng'[j] = eng[j]
       ELSE eng' = eng]_vars

(* a press under shift has just put deck 1 at 6%, its keylock having  *)
(* been toggled before, while deck 2 still has the 8% of init         *)
C38_Witness ==
  /\ ev.op = "keylockButton" /\ ev.arg = "shifted" /\ ev.num = 127 /\ ev.deck = 1
  /\ eng[<<1, "rateRange">>] = 6
  /\ eng[<<2, "rateRange">>] = DEFAULT_RATE_RANGE
  /\ eng[<<1, "keylock">>] = 1

----------------------------------------------------------------------------
(* The jog state of one deck and the events of the other *)

(* C39: a jogTouch or jogWheel event of one deck, and the firing of that  *)
(* deck's idle-release timer, leave the other deck's scratch-active flag, *)
(* timer handle and pending timer, tick counter, last-tick time,          *)
(* scratchMode flag and the engine's scratch and slip state as they were. *)
C39_OtherDeckUntouched ==
  [][\A d \in Decks :
       (ev'.op \in {"jogTouch", "jogWheel", "jogReleaseTimer"} /\ ev'.deck = d) =>
         \A o \in Decks \ {d} :
           /\ jogScratchActive'[o] = jogScratchActive[o]
           /\ jogReleaseTimer'[o] = jogReleaseTimer[o]
           /\ JogTimers(timers', o) = JogTimers(timers, o)
           /\ jogTickCount'[o] = jogTickCount[o]
           /\ jogLastTickTime'[o] = jogLastTickTime[o]
           /\ scratchMode'[o] = scratchMode[o]
           /\ scratchOn'[o] = scratchOn[o]
           /\ slip'[o] = slip[o]
           /\ play'[o] = play[o] /\ pos'[o] = pos[o]]_vars

(* deck 1 has just been scratched again while deck 2 is scratching with   *)
(* its own release timer pending                                          *)
C39_Witness ==
  /\ ev.op = "jogTouch" /\ ev.deck = 1
  /\ jogScratchActive[1] /\ jogTickCount[1] >= 2
  /\ jogScratchActive[2] /\ scratchOn[2] /\ slip[2] = 1
  /\ \E t \in JogTimers(timers, 2) : t.id = jogReleaseTimer[2]
  /\ jogReleaseTimer[1] # jogReleaseTimer[2]

----------------------------------------------------------------------------
(* resetDefaults() called twice *)

(* C40: from every state of the LED manager, resetDefaults() ends with    *)
(* every LED of the table OFF except vinylmode, which is ON on both       *)
(* decks, in the cache and on the device; a second resetDefaults() right  *)
(* after it ends in the same cache and the same device bytes; and the     *)
(* state a resetDefaults() call has left is that default state.           *)
C40_ResetIdempotent ==
  LET once == ResetDefaults(Cur)
      again == ResetDefaults(LedState(once.cache, once.device))
  IN /\ AllDefault(once.device) /\ AllDefault(once.cache)
     /\ again.device = once.device /\ again.cache = once.cache
     /\ ev.op = "resetDefaults" => AllDefault(device) /\ AllDefault(cache)

(* resetDefaults() has run on the default state: it wrote vinylmode OFF   *)
(* and ON again on both decks, and nothing else                           *)
C40_Witness ==
  /\ ev.op = "resetDefaults"
  /\ AllDefault(device)
  /\ sent = << <<1, LedCode("vinylmode"), LED_OFF>>, <<2, LedCode("vinylmode"), LED_OFF>>,
               <<1, LedCode("vinylmode"), LED_ON>>, <<2, LedCode("vinylmode"), LED_ON>> >>

====
